---- MODULE Spec2Model ----
(***************************************************************************)
(* Skool community scraper: the actor entry point, input validation, the   *)
(* access gate, the browser (scroll) traversal and the page-cursor (JSON   *)
(* API) traversal, modelled as one state machine.                          *)
(*                                                                         *)
(* The repository holds three builds of the scraper:                       *)
(*   "legacy"  main.js + the Puppeteer scraper (scrapeAllCommunities),     *)
(*   "crawler" part_001 entry + the PuppeteerCrawler scraper               *)
(*             (handleCommunityRequest),                                   *)
(*   "api"     part_001 entry + the CheerioCrawler scraper                 *)
(*             (handleMainDataRequest / handleApiRequest).                 *)
(* The build is fixed in Init; every action is guarded by the build whose  *)
(* code it models.                                                         *)
(***************************************************************************)
EXTENDS Integers, Sequences, FiniteSets, TLC

(***************************************************************************)
(* Bounds of the model (not program constants).                            *)
(***************************************************************************)
\* number of community targets in startUrls
MaxTargets == 2
\* how many times during one run the environment may depart from the plain
\* course (credentials accepted, community accessible, one full page of posts,
\* every operation succeeding): a rejection or denial, a short or empty page, a
\* further page, new content loading after a scroll, the load-more control
\* responding to a click, a post failing to parse, a shifted feed, or an
\* operation (navigation, page query, timer, dataset write, queue write) failing
MaxEvents == 2
\* server pages per community in the page-cursor build
MaxPages == 2
\* fresh posts per server page
MaxPageLen == 3
\* the last loop iteration that sees a given page grown
MaxGrowthTicks == 2
\* posts handed to processAdvancedFilters
MaxFilterPosts == 2
\* top-level comments of a post, replies of one comment, levels of a thread
MaxRoots == 2
MaxReplies == 3
MaxThreadDepth == 4

(***************************************************************************)
(* Program constants.                                                      *)
(***************************************************************************)
\* extractPosts: const batchSize = 10
batchSize == 10
\* handleInfiniteScroll: const maxScrollAttempts = 200
maxScrollAttempts == 200
\* handleInfiniteScroll: if (stableScrollCount >= 3)
stableLimit == 3
\* smartScroll: if (adaptiveDelay && scrollMetrics.totalScrolls > 5)
smartWarmup == 5
\* smartScroll: if (scrollMetrics.stuckCount >= 3)
stuckLimit == 3
\* handleApiRequest: this.input.maxItems || 30
apiDefaultMaxItems == 30
\* initialize: maxRequestRetries: this.input.maxRequestRetries || 3
crawlerDefaultRetries == 3
\* validateNumericParams: maxItems: { min: 0, max: 50000, default: 1000 }
maxItemsMin == 0
maxItemsMax == 50000
\* validateNumericParams: maxRequestRetries: { min: 0, max: 10, default: 3 }
retriesMin == 0
retriesMax == 10
\* setDefaults: maxItems: 1000, maxRequestRetries: 3
defaultMaxItems == 1000
defaultMaxRequestRetries == 3

(***************************************************************************)
(* Small helpers.                                                          *)
(***************************************************************************)
Min(a, b) == IF a < b THEN a ELSE b

Range(s) == {s[i] : i \in DOMAIN s}

\* String.prototype.includes on strings held as sequences of chunks
StrIncludes(s, pat) ==
    \E k \in 0..(Len(s) - Len(pat)) : SubSeq(s, k + 1, k + Len(pat)) = pat

\* a counter statement that stores the handler's own count
assignTo(counter, n) == n

\* this.stats.processed += n, this.stats.totalPosts += n: read, add and store
\* in one synchronous statement
addTo(counter, n) == counter + n

\* statistics that count the posts of a community but not the community
countPostsOnly(st, n) == [st EXCEPT !.totalPosts = addTo(@, n)]

\* this.stats.totalPosts += posts.length; this.stats.communitiesProcessed++
countCommunity(st, n) ==
    [st EXCEPT !.totalPosts = addTo(@, n), !.communitiesProcessed = @ + 1]

\* a store that puts the items of a call in front of what it holds
unshiftData(ds, items) == items \o ds

\* Actor.pushData(items): the items are appended to the dataset in the order
\* given
pushData(ds, items) == ds \o items

(***************************************************************************)
(* Errors: class, message, the message of the error it wraps (its own when  *)
(* it wraps none), and whether the message text embeds a cookie value.     *)
(***************************************************************************)
NoErr == [cls |-> "none", msg |-> "", cause |-> "", leak |-> FALSE]

Err(c, m) == [cls |-> c, msg |-> m, cause |-> m, leak |-> FALSE]

\* new X(`prefix: ${error.message}`): the class changes, the text is kept
Wrap(c, m, e) == [cls |-> c, msg |-> m, cause |-> e.cause, leak |-> e.leak]

(***************************************************************************)
(* Input configuration.                                                    *)
(***************************************************************************)
SkoolDomain == <<"skool", ".", "com">>

CookieAuth == [name |-> "auth_token", value |-> "secret", domain |-> SkoolDomain]
CookieSession == [name |-> "session", value |-> "secret", domain |-> <<"www", ".">> \o SkoolDomain]
CookieNoName == [name |-> "", value |-> "secret", domain |-> SkoolDomain]
CookieNoValue == [name |-> "auth_token", value |-> "", domain |-> SkoolDomain]
CookieForeign == [name |-> "auth_token", value |-> "secret", domain |-> <<"example", ".", "com">>]
CookieLookalike == [name |-> "auth_token", value |-> "secret",
                    domain |-> SkoolDomain \o <<".", "example", ".", "org">>]

\* the cookies field of the input: absent / not an array, or a list
CookieChoices ==
    { [isArray |-> FALSE, items |-> <<>>],
      [isArray |-> TRUE, items |-> <<>>],
      [isArray |-> TRUE, items |-> <<CookieSession>>],
      [isArray |-> TRUE, items |-> <<CookieNoName>>],
      [isArray |-> TRUE, items |-> <<CookieNoValue>>],
      [isArray |-> TRUE, items |-> <<CookieForeign>>],
      [isArray |-> TRUE, items |-> <<CookieLookalike>>],
      [isArray |-> TRUE, items |-> <<CookieAuth, CookieNoName>>],
      [isArray |-> TRUE, items |-> <<CookieAuth, CookieSession>>] }

Url(t) == [host |-> "www.skool.com", slug |-> t]
BadUrl == [host |-> "example.com", slug |-> 1]

StartUrlChoices ==
    { [isArray |-> FALSE, items |-> <<>>],
      [isArray |-> TRUE, items |-> <<BadUrl>>] }
    \cup { [isArray |-> TRUE, items |-> [i \in 1..n |-> Url(i)]] : n \in 0..MaxTargets }

Unset == [set |-> FALSE, v |-> 0]
Num(n) == [set |-> TRUE, v |-> n]

MaxItemsChoices == {Unset, Num(-1), Num(0), Num(2), Num(50001)}
RetriesChoices == {Num(1), Num(11)}
IncludeCommentsChoices == {FALSE}

Inputs ==
    [ startUrls : StartUrlChoices,
      cookies : CookieChoices,
      maxItems : MaxItemsChoices,
      maxRequestRetries : RetriesChoices,
      includeComments : IncludeCommentsChoices ]

(***************************************************************************)
(* validators.js                                                           *)
(***************************************************************************)
validateSkoolUrl(u) == u.host = "www.skool.com"

validateStartUrls(su) ==
    IF ~su.isArray \/ Len(su.items) = 0
    THEN Err("ValidationError", "startUrls must be a non-empty array")
    ELSE IF \E i \in DOMAIN su.items : ~validateSkoolUrl(su.items[i])
         THEN Err("ValidationError", "Invalid Skool.com URL")
         ELSE NoErr

\* a validator that checks the cookie's domain but not its required fields
validateCookieFormatDomainOnly(c) ==
    IF ~StrIncludes(c.domain, SkoolDomain)
    THEN Err("ValidationError", "Cookie must be from skool.com domain")
    ELSE NoErr

validateCookieFormat(c) ==
    IF c.name = "" \/ c.value = "" \/ c.domain = <<>>
    THEN Err("ValidationError", "Cookie missing required field")
    ELSE IF ~StrIncludes(c.domain, SkoolDomain)
         THEN Err("ValidationError", "Cookie must be from skool.com domain")
         ELSE NoErr

validateCookies(ck) ==
    IF ~ck.isArray \/ Len(ck.items) = 0
    THEN Err("ValidationError", "Cookies must be provided as a non-empty array")
    ELSE IF \E i \in DOMAIN ck.items : validateCookieFormat(ck.items[i]) # NoErr
         THEN LET i == CHOOSE j \in DOMAIN ck.items :
                          /\ validateCookieFormat(ck.items[j]) # NoErr
                          /\ \A k \in 1..(j - 1) : validateCookieFormat(ck.items[k]) = NoErr
              IN validateCookieFormat(ck.items[i])
         ELSE NoErr

\* a range check that knows no upper end
NumericAtLeast(p, lo, hi) == ~p.set \/ p.v >= lo

\* validateNumericParams: if (input[param] !== undefined) the value must not be
\* below config.min or above config.max
NumericInRange(p, lo, hi) == ~p.set \/ (p.v >= lo /\ p.v <= hi)

\* validateNumericParams: const numericParams = {...}, in the order of its entries
numericParams ==
    [ maxItems |-> [min |-> maxItemsMin, max |-> maxItemsMax],
      maxConcurrency |-> [min |-> 1, max |-> 50],
      minConcurrency |-> [min |-> 1, max |-> 10],
      maxRequestRetries |-> [min |-> retriesMin, max |-> retriesMax],
      requestDelay |-> [min |-> 1, max |-> 10],
      scrollDelay |-> [min |-> 1, max |-> 5] ]

numericParamOrder ==
    <<"maxItems", "maxConcurrency", "minConcurrency", "maxRequestRetries", "requestDelay",
      "scrollDelay">>

\* setDefaults: const defaults = {...}, its numeric entries
numericDefaults ==
    [ maxItems |-> defaultMaxItems, maxConcurrency |-> 10, minConcurrency |-> 1,
      maxRequestRetries |-> defaultMaxRequestRetries, requestDelay |-> 2, scrollDelay |-> 2 ]

\* input[param]: undefined when the input has no such field
Param(inp, f) == IF f \in DOMAIN inp THEN inp[f] ELSE [set |-> FALSE, v |-> 0]

\* input[key] after setDefaults: the caller's value, or the default
Defaulted(inp, f) == IF Param(inp, f).set THEN Param(inp, f).v ELSE numericDefaults[f]

\* a validator that lets every numeric parameter through
validateNumericParamsUnchecked(inp) == NoErr

validateNumericParams(inp) ==
    LET bad == {k \in DOMAIN numericParamOrder :
                   ~NumericInRange(Param(inp, numericParamOrder[k]),
                                   numericParams[numericParamOrder[k]].min,
                                   numericParams[numericParamOrder[k]].max)}
        minC == Param(inp, "minConcurrency")
        maxC == Param(inp, "maxConcurrency")
    IN IF bad # {}
       THEN LET first == CHOOSE k \in bad : \A j \in bad : k <= j
            IN Err("ValidationError", numericParamOrder[first] \o " must be a number in its range")
       ELSE IF minC.set /\ minC.v # 0 /\ maxC.set /\ maxC.v # 0 /\ minC.v > maxC.v
            THEN Err("ValidationError", "minConcurrency cannot be greater than maxConcurrency")
            ELSE NoErr

setDefaults(inp) ==
    [ startUrls |-> inp.startUrls.items,
      cookies |-> inp.cookies.items,
      maxItems |-> Defaulted(inp, "maxItems"),
      maxConcurrency |-> Defaulted(inp, "maxConcurrency"),
      minConcurrency |-> Defaulted(inp, "minConcurrency"),
      maxRequestRetries |-> Defaulted(inp, "maxRequestRetries"),
      requestDelay |-> Defaulted(inp, "requestDelay"),
      scrollDelay |-> Defaulted(inp, "scrollDelay"),
      includeComments |-> inp.includeComments ]

\* the first check that throws, in the order validateInput runs them
validateInput(inp) ==
    IF validateStartUrls(inp.startUrls) # NoErr THEN validateStartUrls(inp.startUrls)
    ELSE IF validateCookies(inp.cookies) # NoErr THEN validateCookies(inp.cookies)
    ELSE validateNumericParams(inp)

(***************************************************************************)
(* The access gate: classification of a probe / community response from    *)
(* the signals observed on it.                                             *)
(***************************************************************************)
\* what checkCommunityAccess (browser) can observe on the community page
AccessSignals ==
    {"gotoThrows", "accessDenied", "privateContent", "loginRequired", "notFound",
     "communityTab", "postsContainer", "postItem", "redirectedToLogin"}

\* a classifier that denies access when it finds no community content
checkCommunityAccessNeedsContent(S) ==
    IF "gotoThrows" \in S THEN FALSE
    ELSE IF "accessDenied" \in S \/ "privateContent" \in S \/ "loginRequired" \in S THEN FALSE
    ELSE IF "notFound" \in S THEN FALSE
    ELSE IF "communityTab" \in S \/ "postsContainer" \in S THEN TRUE
    ELSE IF "postItem" \in S THEN TRUE
    ELSE FALSE

checkCommunityAccess(S) ==
    IF "gotoThrows" \in S THEN FALSE
    ELSE IF "accessDenied" \in S \/ "privateContent" \in S \/ "loginRequired" \in S THEN FALSE
    ELSE IF "notFound" \in S THEN FALSE
    ELSE IF "communityTab" \in S \/ "postsContainer" \in S THEN TRUE
    ELSE IF "postItem" \in S THEN TRUE
    ELSE TRUE

\* what verifyAuthentication (browser) can observe on the discovery / profile pages
AuthSignals ==
    {"gotoThrows", "userAvatar", "profileMenu", "loginButton",
     "profileGotoThrows", "profileRedirectsToLogin"}

verifyAuthentication(S) ==
    LET isAuthenticated == "userAvatar" \in S \/ "profileMenu" \in S
        hasLoginButton == "loginButton" \in S
    IN IF "gotoThrows" \in S THEN FALSE
       ELSE IF hasLoginButton /\ ~isAuthenticated THEN FALSE
       ELSE IF isAuthenticated THEN TRUE
       ELSE IF "profileGotoThrows" \notin S /\ "profileRedirectsToLogin" \notin S THEN TRUE
       ELSE FALSE

\* what verifyAuthFromHtml can find in the html text
HtmlSignals == {"email", "loginPath", "userData"}

verifyAuthFromHtml(S) ==
    IF "email" \in S THEN TRUE
    ELSE IF "loginPath" \in S THEN FALSE
    ELSE IF "userData" \in S THEN TRUE
    ELSE FALSE

\* what checkCommunityAccess (HTTP) can observe on the response
HttpSignals == {"requestThrows", "redirectedToLogin", "accessDeniedText"}

checkCommunityAccessHttp(S) ==
    IF "requestThrows" \in S THEN FALSE
    ELSE IF "redirectedToLogin" \in S THEN FALSE
    ELSE IF "accessDeniedText" \in S THEN FALSE
    ELSE TRUE

(***************************************************************************)
(* Comment threads (parsers.js: extractCommentsForPost,                    *)
(* extractNestedComments).  A comment is named by its path in the thread:  *)
(* <<1>> is the first top-level comment, <<1, 2>> its second reply.  On    *)
(* the post's page the element of a reply lies inside the element of the   *)
(* comment it replies to, and the reply elements are what the              *)
(* nestedComments selector matches.  A thread is given by its widths: w[l] *)
(* comments under every comment of level l - 1.                            *)
(***************************************************************************)
Threads ==
    { w \in [1..MaxThreadDepth -> 0..MaxReplies] :
        /\ w[1] \in 1..MaxRoots
        /\ \A l \in 3..MaxThreadDepth : w[l] <= 1
        /\ \A l \in 2..MaxThreadDepth : w[l - 1] = 0 => w[l] = 0 }

\* element.$$(selector): every element below el, at any depth, in document order
RECURSIVE Below(_, _)
Below(w, el) ==
    IF Len(el) >= Len(w) THEN <<>>
    ELSE LET n == w[Len(el) + 1]
             F[k \in 0..n] ==
                 IF k = 0 THEN <<>>
                 ELSE F[k - 1] \o <<Append(el, k)>> \o Below(w, Append(el, k))
         IN F[n]

\* the replies of el in the thread, in the order the thread lists them
RepliesOf(w, el) ==
    IF Len(el) >= Len(w) THEN <<>> ELSE [k \in 1..w[Len(el) + 1] |-> Append(el, k)]

\* a list built the other way round
unshiftComment(list, c) == <<c>> \o list

\* comments.push(commentData) / nestedComments.push(nestedData)
pushComment(list, c) == Append(list, c)

\* if (nested.length > 0) data.replies = nested: the replies key exists only
\* when there are replies
CommentData(id, nested) ==
    [id |-> id, hasReplies |-> Len(nested) > 0, replies |-> nested]

\* extractNestedComments(page, commentElement, depth); pf: the elements whose
\* parseCommentData throws, qf: the elements whose $$ throws
RECURSIVE extractNestedComments(_, _, _, _, _)
extractNestedComments(w, el, depth, pf, qf) ==
    IF depth <= 0 THEN <<>>
    ELSE IF el \in qf THEN <<>>
    ELSE LET nestedElements == Below(w, el)
             F[i \in 0..Len(nestedElements)] ==
                 IF i = 0 THEN <<>>
                 ELSE IF nestedElements[i] \in pf THEN F[i - 1]
                 ELSE pushComment(F[i - 1],
                          CommentData(nestedElements[i],
                              extractNestedComments(w, nestedElements[i], depth - 1, pf, qf)))
         IN F[Len(nestedElements)]

\* a recursion that keeps one level more than it was asked for
nestedDepthFull(maxDepth) == maxDepth

\* extractCommentsForPost: extractNestedComments(page, commentElement, maxDepth - 1)
nestedDepth(maxDepth) == maxDepth - 1

\* extractCommentsForPost(page, postUrl, maxDepth).  unreachable: page.goto
\* throws or the comments container never shows; replyIsItem: the reply elements
\* match the commentItem selector as well
extractCommentsForPost(w, maxDepth, pf, qf, unreachable, replyIsItem) ==
    IF unreachable THEN <<>>
    ELSE LET commentElements == IF replyIsItem THEN Below(w, <<>>) ELSE RepliesOf(w, <<>>)
             F[i \in 0..Len(commentElements)] ==
                 IF i = 0 THEN <<>>
                 ELSE IF commentElements[i] \in pf THEN F[i - 1]
                 ELSE pushComment(F[i - 1],
                          CommentData(commentElements[i],
                              extractNestedComments(w, commentElements[i],
                                                    nestedDepth(maxDepth), pf, qf)))
         IN F[Len(commentElements)]

(***************************************************************************)
(* The comments field of a post.  JavaScript values are tagged with their  *)
(* type, so that a count and a list are different values.                  *)
(***************************************************************************)
\* processComments: this.input.commentsLimit || 50
defaultCommentsLimit == 50
\* extractCommentsForPost(page, postUrl, maxDepth = 5)
defaultMaxDepth == 5

Undefined == [type |-> "undefined"]
NumV(n) == [type |-> "number", n |-> n]
Arr(items) == [type |-> "array", items |-> items]

\* a value in a condition or on the left of ||: undefined and 0 are falsy, an
\* array, the empty one included, is truthy
Truthy(v) ==
    CASE v.type = "undefined" -> FALSE
      [] v.type = "number" -> v.n # 0
      [] OTHER -> TRUE

\* a || b
OrElse(a, b) == IF Truthy(a) THEN a ELSE b

\* extractPostData: comments: post.comments || post.commentCount || 0
extractPostData(post) ==
    [comments |-> OrElse(OrElse(post.comments, post.commentCount), NumV(0))]

\* processComments: [] for what is not an array, else the first
\* (commentsLimit || 50) comments
processComments(commentsData, commentsLimit) ==
    IF commentsData.type # "array" THEN Arr(<<>>)
    ELSE LET maxComments == IF commentsLimit = 0 THEN defaultCommentsLimit ELSE commentsLimit
         IN Arr(SubSeq(commentsData.items, 1, Min(Len(commentsData.items), maxComments)))

\* processPost, as far as the comments field goes
processPost(postData, includeComments, commentsLimit) ==
    IF includeComments /\ Truthy(postData.comments)
    THEN [comments |-> processComments(postData.comments, commentsLimit)]
    ELSE extractPostData(postData)

\* parsePostData: comments: []
parsePostData == [comments |-> Arr(<<>>)]

\* processBatch's comment step for one post: extractCommentsForPost(page, url)
\* when includeComments is set and the post has a url, [] when that throws
processBatchComments(includeComments, hasUrl, throws, thread, unreachable) ==
    IF includeComments /\ hasUrl
    THEN IF throws THEN [comments |-> Arr(<<>>)]
         ELSE [comments |-> Arr(extractCommentsForPost(thread, defaultMaxDepth, {}, {},
                                                        unreachable, FALSE))]
    ELSE parsePostData

(***************************************************************************)
(* Filtering (filters.js).  An object is a function from the names of the  *)
(* fields it has; a field it lacks is outside its domain.  Times are       *)
(* counted in half days: a date string names a day and stands for the      *)
(* instant at which that day starts.                                       *)
(***************************************************************************)
Has(obj, f) == f \in DOMAIN obj

\* obj.f where a missing or zero number is falsy
NumOr0(obj, f) == IF Has(obj, f) THEN obj[f] ELSE 0

\* new Date(...).toISOString().split('T')[0]: the day of an instant
DayOf(t) == t \div 2

\* new Date('YYYY-MM-DD').getTime(): the instant a day starts
DayStart(d) == 2 * d

\* { ...a, ...b }: b's fields replace a's, whole field by whole field
Spread(a, b) == [k \in DOMAIN a \cup DOMAIN b |-> IF k \in DOMAIN b THEN b[k] ELSE a[k]]

\* SearchPresets.getPresetConfig(presetName) at instant now
getPresetConfig(presetName, now) ==
    CASE presetName = "high-engagement" ->
           [engagement |-> [enabled |-> TRUE, minLikes |-> 50, minComments |-> 10],
            sorting |-> [sortBy |-> "engagement", sortOrder |-> "desc"]]
      [] presetName = "recent-posts" ->
           [dateRange |-> [enabled |-> TRUE, startDate |-> DayOf(now - 2 * 30),
                           endDate |-> DayOf(now)],
            sorting |-> [sortBy |-> "date", sortOrder |-> "desc"]]
      [] presetName = "popular-discussions" ->
           [engagement |-> [enabled |-> TRUE, minLikes |-> 25, minComments |-> 5],
            sorting |-> [sortBy |-> "comments", sortOrder |-> "desc"]]
      [] presetName = "trending-content" ->
           [dateRange |-> [enabled |-> TRUE, startDate |-> DayOf(now - 2 * 7),
                           endDate |-> DayOf(now)],
            engagement |-> [enabled |-> TRUE, minLikes |-> 20, minComments |-> 3],
            sorting |-> [sortBy |-> "engagement", sortOrder |-> "desc"]]
      [] OTHER -> <<>>

\* the callback of filterByDateRange
inDateRange(post, dateRange, now) ==
    LET start == IF NumOr0(dateRange, "startDate") # 0 THEN DayStart(dateRange.startDate) ELSE 0
        end == IF NumOr0(dateRange, "endDate") # 0 THEN DayStart(dateRange.endDate) ELSE now
    IN IF NumOr0(dateRange, "startDate") = 0 /\ NumOr0(dateRange, "endDate") = 0 THEN TRUE
       ELSE post.createdAt >= start /\ post.createdAt <= end

\* the callback of filterByEngagement; the rate (likes + comments) / likes is
\* compared after multiplying by likes, and minEngagementRate is not among the
\* criteria drawn
hasEngagement(post, criteria) ==
    /\ ~(NumOr0(criteria, "minLikes") # 0 /\ post.likes < criteria.minLikes)
    /\ ~(NumOr0(criteria, "maxLikes") # 0 /\ post.likes > criteria.maxLikes)
    /\ ~(NumOr0(criteria, "minComments") # 0 /\ post.comments < criteria.minComments)

\* the callback of filterByContent: a keyword is included in the text when it is
\* one of the text's words
hasContent(post, criteria) ==
    /\ (Has(criteria, "keywords") /\ criteria.keywords # {})
           => criteria.keywords \cap post.words # {}
    /\ (Has(criteria, "excludeKeywords") /\ criteria.excludeKeywords # {})
           => criteria.excludeKeywords \cap post.words = {}

\* the callback of filterByAuthor
hasAuthor(post, criteria) ==
    /\ (Has(criteria, "includeAuthors") /\ criteria.includeAuthors # {})
           => post.author \in criteria.includeAuthors
    /\ (Has(criteria, "excludeAuthors") /\ criteria.excludeAuthors # {})
           => post.author \notin criteria.excludeAuthors

\* a.localeCompare(b): titles are named by their rank in alphabetical order
localeCompare(a, b) == a - b

\* the comparator of sortPosts
Comparison(a, b, criteria) ==
    LET sortBy == IF Has(criteria, "sortBy") THEN criteria.sortBy ELSE "default"
        c == CASE sortBy = "likes" -> b.likes - a.likes
               [] sortBy = "comments" -> b.comments - a.comments
               [] sortBy = "engagement" -> (b.likes + b.comments) - (a.likes + a.comments)
               [] sortBy = "alphabetical" -> localeCompare(a.title, b.title)
               [] OTHER -> b.createdAt - a.createdAt
    IN IF Has(criteria, "sortOrder") /\ criteria.sortOrder = "asc" THEN 0 - c ELSE c

\* a sort that puts a post before the posts it ties with
sortPostsTiesFirst(posts, criteria) ==
    LET Insert(list, x) ==
            LET later == {j \in 1..Len(list) : Comparison(list[j], x, criteria) >= 0}
                at == IF later = {} THEN Len(list) + 1
                      ELSE CHOOSE j \in later : \A k \in later : j <= k
            IN SubSeq(list, 1, at - 1) \o <<x>> \o SubSeq(list, at, Len(list))
        F[i \in 0..Len(posts)] == IF i = 0 THEN <<>> ELSE Insert(F[i - 1], posts[i])
    IN F[Len(posts)]

\* posts.sort(comparator): a stable sort
sortPosts(posts, criteria) ==
    LET Insert(list, x) ==
            LET later == {j \in 1..Len(list) : Comparison(list[j], x, criteria) > 0}
                at == IF later = {} THEN Len(list) + 1
                      ELSE CHOOSE j \in later : \A k \in later : j <= k
            IN SubSeq(list, 1, at - 1) \o <<x>> \o SubSeq(list, at, Len(list))
        F[i \in 0..Len(posts)] == IF i = 0 THEN <<>> ELSE Insert(F[i - 1], posts[i])
    IN F[Len(posts)]

\* searchFilters.group?.enabled
Enabled(searchFilters, group) ==
    Has(searchFilters, group) /\ Has(searchFilters[group], "enabled")
        /\ searchFilters[group].enabled

\* SmartFilterEngine.applyFilters's four filtering steps
filterSteps(posts, searchFilters, now) ==
    LET byDate == IF Enabled(searchFilters, "dateRange")
                  THEN SelectSeq(posts, LAMBDA p : inDateRange(p, searchFilters.dateRange, now))
                  ELSE posts
        byEngagement == IF Enabled(searchFilters, "engagement")
                        THEN SelectSeq(byDate, LAMBDA p : hasEngagement(p, searchFilters.engagement))
                        ELSE byDate
        byContent == IF Enabled(searchFilters, "content")
                     THEN SelectSeq(byEngagement, LAMBDA p : hasContent(p, searchFilters.content))
                     ELSE byEngagement
    IN IF Enabled(searchFilters, "authors")
       THEN SelectSeq(byContent, LAMBDA p : hasAuthor(p, searchFilters.authors))
       ELSE byContent

\* a filter engine whose author step works on the unfiltered posts
filterStepsAuthorsOnInput(posts, searchFilters, now) ==
    IF Enabled(searchFilters, "authors")
    THEN SelectSeq(posts, LAMBDA p : hasAuthor(p, searchFilters.authors))
    ELSE filterSteps(posts, searchFilters, now)

\* the filtering part of applyFilters
filteredPosts(posts, searchFilters, now) == filterSteps(posts, searchFilters, now)

\* SmartFilterEngine.applyFilters(searchFilters)
applyFilters(posts, searchFilters, now) ==
    IF Has(searchFilters, "sorting")
    THEN sortPosts(filteredPosts(posts, searchFilters, now), searchFilters.sorting)
    ELSE filteredPosts(posts, searchFilters, now)

\* working on the caller's array itself
aliasPosts(posts) == [items |-> posts, shared |-> TRUE]

\* let filteredPosts = [...this.posts]: a new array with the same posts
copyPosts(posts) == [items |-> posts, shared |-> FALSE]

\* the array applyFilters hands to sortPosts is the caller's own: every step
\* before it returned the array it was given. Array.filter makes a new array;
\* filterByDateRange without dates returns its argument
sortsCallerArray(posts, searchFilters) ==
    /\ copyPosts(posts).shared
    /\ Enabled(searchFilters, "dateRange") =>
           /\ NumOr0(searchFilters.dateRange, "startDate") = 0
           /\ NumOr0(searchFilters.dateRange, "endDate") = 0
    /\ ~Enabled(searchFilters, "engagement")
    /\ ~Enabled(searchFilters, "content")
    /\ ~Enabled(searchFilters, "authors")

\* the caller's array once applyFilters has returned: Array.sort sorts in place
postsAfterApply(posts, searchFilters, now) ==
    IF Has(searchFilters, "sorting") /\ sortsCallerArray(posts, searchFilters)
    THEN sortPosts(posts, searchFilters.sorting)
    ELSE posts

\* processAdvancedFilters(posts, input): the criteria applied and the result
processAdvancedFilters(posts, inputSearchFilters, searchPresets, now) ==
    LET searchFilters == IF searchPresets # "none"
                         THEN Spread(inputSearchFilters, getPresetConfig(searchPresets, now))
                         ELSE inputSearchFilters
        hasEnabledFilters == \E g \in DOMAIN searchFilters :
                                 Has(searchFilters[g], "enabled") /\ searchFilters[g].enabled
        out == IF ~hasEnabledFilters /\ ~Has(searchFilters, "sorting")
               THEN posts
               ELSE applyFilters(posts, searchFilters, now)
    IN [criteria |-> searchFilters, posts |-> out,
        callerPosts |-> IF ~hasEnabledFilters /\ ~Has(searchFilters, "sorting")
                        THEN posts
                        ELSE postsAfterApply(posts, searchFilters, now),
        analytics |-> [originalCount |-> Len(posts), filteredCount |-> Len(out)]]

(***************************************************************************)
(* Requests: the community a traversal works on, the page cursor and the   *)
(* retry count kept by the crawler.                                        *)
(***************************************************************************)
Req(l, t, p, r) == [label |-> l, t |-> t, page |-> p, retries |-> r]

NoReq == Req("none", 0, 0, 0)

\* `Community ${url}: ${error.message}` / `URL ${url}: ${error.message}`
ErrorEntry(k, t, m) == [kind |-> k, t |-> t, msg |-> m]

\* post k of community t
Post(t, k) == <<t, k>>

\* how many post elements the community page shows when first loaded: the
\* plain page shows a little more than one batch
PlainRender == batchSize + 1

FirstRender == {0, 1, PlainRender}

(***************************************************************************)
(* State.                                                                  *)
(***************************************************************************)
VARIABLES
    variant,    \* which build runs: "legacy", "crawler", "api", or "gate"
    input,      \* the raw actor input
    cfg,        \* the validated input (validateInput's result)
    mainPc,     \* position of the actor entry point
    err,        \* the error travelling up the entry point's catch blocks
    kv,         \* names set in the key-value side-store
    leaked,     \* whether a log line / a side-store record embeds a cookie value
    res,        \* resources touched: dataset opened, browser or crawler created, network used
    dataset,    \* the output sink: posts appended, in order
    stats,      \* the scraper's statistics object
    li,         \* scrapeAllCommunities: loop index i (1-based)
    allPosts,   \* scrapeAllCommunities: const allPosts
    tpc,        \* position inside the traversal of one community
    cur,        \* the request (community) being traversed
    page,       \* the browser page of the traversal
    sc,         \* handleInfiniteScroll's locals
    ex,         \* extractPosts' / processBatch's locals
    queue,      \* the crawler's request queue
    hist,       \* per community: how its traversal went
    gate,       \* the access-gate classification last computed
    server,     \* the community feed the JSON API serves, when it is a given one
    src,        \* the behaviour of the browser page under scrolling, when it is a
                \* given one, and the loop iterations counted against it
    ss,         \* smartScroll's locals
    pd,         \* one post on its way to the output: what the source gives for
                \* it and the comments field it is emitted with
    fl,         \* a call of processAdvancedFilters: its posts and input, the
                \* criteria it applied and the posts it returned
    cm,         \* a post's comment thread as its page shows it, and the tree
                \* extractCommentsForPost returned for it
    rt,         \* a call of handleWithRetry: its ceiling, loop position and what it
                \* has done so far
    buildId,    \* this.buildId of the API scraper: the community whose token it holds
    env         \* how many events the environment may still produce

vars == <<variant, input, cfg, mainPc, err, kv, leaked, res, dataset, stats, li,
          allPosts, tpc, cur, page, sc, ex, queue, hist, gate, server, src, ss,
          cm, pd, fl, rt, buildId, env>>

Targets == 1..MaxTargets

NoCfg == [startUrls |-> <<>>, cookies |-> <<>>, maxItems |-> 0,
          maxRequestRetries |-> 0, includeComments |-> FALSE]

NoPage == [rendered |-> 0, height |-> 0]

NoScroll == [itemCount |-> 0, previousHeight |-> 0, stableScrollCount |-> 0,
             scrollAttempts |-> 0]

NoExtract == [posts |-> <<>>, i |-> 0, n |-> 0, stale |-> FALSE]

NoHist == [outcome |-> "none", zero |-> TRUE, fault |-> FALSE, denied |-> FALSE,
           dropped |-> {}, returned |-> <<>>]

NoGate == [fn |-> "none", signals |-> {}, result |-> FALSE]

\* handleWithRetry not called
NoRetry == [given |-> FALSE, maxRetries |-> 0, attempt |-> 0, pc |-> "none", calls |-> 0,
            errors |-> <<>>, waits |-> <<>>, result |-> "none", thrown |-> "none"]

\* constructor: this.buildId = null
NoBuildId == 0

\* processAdvancedFilters not called
NoFilterCall == [given |-> FALSE, posts |-> <<>>, searchFilters |-> <<>>, searchPresets |-> "none",
                 now |-> 0, done |-> FALSE, criteria |-> <<>>, out |-> <<>>,
                 analytics |-> [originalCount |-> 0, filteredCount |-> 0],
                 callerPosts |-> <<>>, redone |-> FALSE, now2 |-> 0, again |-> <<>>,
                 twice |-> <<>>]

\* no post looked at
NoPostData == [given |-> FALSE, comments |-> Undefined, commentCount |-> Undefined,
               commentsLimit |-> 0, hasUrl |-> FALSE, throws |-> FALSE, thread |-> <<>>,
               unreachable |-> FALSE, done |-> FALSE, post |-> [comments |-> Undefined]]

\* no post page visited
NoComments == [given |-> FALSE, thread |-> <<>>, maxDepth |-> 0, pf |-> {}, qf |-> {},
               unreachable |-> FALSE, replyIsItem |-> FALSE, done |-> FALSE, out |-> <<>>]

\* no given page behaviour: the environment decides tick by tick
FreeSource == [given |-> FALSE, lastGrowth |-> 0, button |-> "free", ticks |-> 0]

\* smartScroll: let itemCount = 0; scrollMetrics = {totalScrolls: 0, stuckCount: 0};
\* lastItemCount = 0
NoSmart == [itemCount |-> 0, lastItemCount |-> 0, totalScrolls |-> 0, stuckCount |-> 0]

\* no given feed: the environment decides page by page what the API returns
FreeServer == [fixed |-> FALSE, pages |-> 0, len |-> 0]

\* constructor: this.stats = {...}
NewStats == [totalPosts |-> 0, totalComments |-> 0, communitiesProcessed |-> 0,
             errors |-> <<>>, processed |-> 0, communities |-> 0, posts |-> 0]

InitBase ==
    /\ cfg = NoCfg
    /\ mainPc = "start"
    /\ err = NoErr
    /\ kv = {}
    /\ leaked = [log |-> FALSE, kv |-> FALSE]
    /\ res = [dataset |-> FALSE, scraper |-> FALSE, net |-> FALSE]
    /\ dataset = <<>>
    /\ stats = NewStats
    /\ li = 0
    /\ allPosts = <<>>
    /\ tpc = "idle"
    /\ cur = NoReq
    /\ page = NoPage
    /\ sc = NoScroll
    /\ ex = NoExtract
    /\ queue = <<>>
    /\ hist = [t \in Targets |-> NoHist]
    /\ gate = NoGate
    /\ ss = NoSmart
    /\ cm = NoComments
    /\ pd = NoPostData
    /\ buildId = NoBuildId
    /\ env = [left |-> MaxEvents]

\* no build calls processAdvancedFilters or handleWithRetry
InitCommon == InitBase /\ fl = NoFilterCall /\ rt = NoRetry

Init ==
    /\ variant \in {"legacy", "crawler", "api"}
    /\ input \in Inputs
    /\ server = FreeServer
    /\ src = FreeSource
    /\ InitCommon

(***************************************************************************)
(* The actor entry point (main.js; part_001 for the crawler builds).       *)
(***************************************************************************)
\* console.error(`... ${error.message}`) and friends
LogError(e) == [leaked EXCEPT !.log = @ \/ e.leak]

\* validatedInput = validateInput(input), and the catch that rethrows
ValidateInput ==
    /\ mainPc = "start"
    /\ LET e == validateInput(input)
       IN IF e = NoErr
          THEN /\ cfg' = setDefaults(input)
               /\ mainPc' = "openDataset"
               /\ UNCHANGED <<err, leaked>>
          ELSE /\ err' = e
               /\ leaked' = LogError(e)
               /\ mainPc' = "fatal"
               /\ UNCHANGED cfg
    /\ UNCHANGED <<variant, input, fl, pd, cm, server, rt, buildId, ss, src, kv, res, dataset, stats, li, allPosts, tpc, cur,
                   page, sc, ex, queue, hist, gate, env>>

\* const dataset = await Actor.openDataset(); const scraper = new SkoolScraper(validatedInput)
OpenDataset ==
    /\ mainPc = "openDataset"
    /\ res' = [res EXCEPT !.dataset = TRUE]
    /\ stats' = NewStats
    /\ mainPc' = "initialize"
    /\ UNCHANGED <<variant, input, fl, pd, cm, server, rt, buildId, ss, src, cfg, err, kv, leaked, dataset, li, allPosts, tpc,
                   cur, page, sc, ex, queue, hist, gate, env>>

\* the key handleScrapingError stores the error under
scrapingErrorKey(e) ==
    IF e.cls = "AuthenticationError" THEN "AUTHENTICATION_ERROR"
    ELSE IF e.cls = "ValidationError" THEN "VALIDATION_ERROR"
    ELSE "SCRAPING_ERROR"

\* catch (scrapingError) { await handleScrapingError(scrapingError); throw scrapingError }
\* (part_001 does not import getAuthErrorMessage: its AuthenticationError branch throws)
HandleScrapingError ==
    /\ mainPc = "scrapingError"
    /\ IF variant # "legacy" /\ err.cls = "AuthenticationError"
       THEN /\ err' = Err("ReferenceError", "getAuthErrorMessage is not defined")
            /\ UNCHANGED <<kv, leaked>>
       ELSE /\ kv' = kv \cup {scrapingErrorKey(err)}
            /\ leaked' = [log |-> leaked.log \/ err.leak, kv |-> leaked.kv \/ err.leak]
            /\ UNCHANGED err
    /\ mainPc' = "fatal"
    /\ UNCHANGED <<variant, input, fl, pd, cm, server, rt, buildId, ss, src, cfg, res, dataset, stats, li, allPosts, tpc, cur,
                   page, sc, ex, queue, hist, gate, env>>

\* catch (error) { await handleFatalError(error); process.exit(1) }
HandleFatalError ==
    /\ mainPc = "fatal"
    /\ kv' = kv \cup {"FATAL_ERROR"}
    /\ leaked' = [log |-> leaked.log \/ err.leak, kv |-> leaked.kv \/ err.leak]
    /\ mainPc' = "failed"
    /\ UNCHANGED <<variant, input, fl, pd, cm, server, rt, buildId, ss, src, cfg, err, res, dataset, stats, li, allPosts, tpc,
                   cur, page, sc, ex, queue, hist, gate, env>>

(***************************************************************************)
(* The environment: it may deviate while the event budget lasts.           *)
(***************************************************************************)
May == IF env.left > 0 THEN BOOLEAN ELSE {FALSE}

Cost(b) == IF b THEN 1 ELSE 0

Spent(f) == [env EXCEPT !.left = @ - Cost(f)]

\* what the probe of the login state shows during a run
AuthObservations ==
    { {"userAvatar"}, {"profileMenu", "loginButton"}, {"loginButton"}, {},
      {"profileRedirectsToLogin"}, {"gotoThrows"} }

\* what the community page shows during a run
AccessObservations ==
    { {"communityTab", "postItem"}, {}, {"accessDenied"}, {"loginRequired", "postsContainer"},
      {"notFound"}, {"gotoThrows"} }

(***************************************************************************)
(* Browser authentication (auth.js, Puppeteer version).                    *)
(***************************************************************************)
\* setCookies: log.debug(`Set cookie: ${cookie.name} for domain: ${cookie.domain}`)
setCookiesLogFields == {"name", "domain"}

\* setupAuthentication: setCookies, verifyAuthentication, throw AuthenticationError
setupAuthentication(setCookiesFails, S) ==
    IF setCookiesFails
    THEN Err("AuthenticationError", "Authentication setup failed")
    ELSE IF ~verifyAuthentication(S)
         THEN Err("AuthenticationError", "AUTHENTICATION_FAILED")
         ELSE NoErr

(***************************************************************************)
(* Legacy build: initialize, scrapeAllCommunities, storeResults.           *)
(***************************************************************************)
\* SkoolScraper.initialize: launchPuppeteer, newPage, setupAuthentication; the
\* catch wraps whatever was thrown into a plain Error
InitializeLegacy ==
    /\ mainPc = "initialize"
    /\ variant = "legacy"
    /\ \E launchFails \in May, setCookiesFails \in May, S \in AuthObservations :
         LET e == IF launchFails THEN Err("Error", "launch failed")
                  ELSE setupAuthentication(setCookiesFails, S)
         IN /\ e # NoErr => env.left > 0
            /\ env' = Spent(e # NoErr)
            /\ res' = [res EXCEPT !.scraper = TRUE, !.net = @ \/ ~launchFails]
            /\ leaked' = [leaked EXCEPT !.log = @ \/ (~launchFails /\ "value" \in setCookiesLogFields)]
            /\ IF e = NoErr
               THEN /\ mainPc' = "scrape"
                    /\ li' = 1
                    /\ UNCHANGED err
               ELSE /\ err' = Wrap("Error", "Scraper initialization failed", e)
                    /\ mainPc' = "scrapingError"
                    /\ UNCHANGED li
    /\ UNCHANGED <<variant, input, fl, pd, cm, server, rt, buildId, ss, src, cfg, kv, dataset, stats, allPosts, tpc, cur, page,
                   sc, ex, queue, hist, gate>>

\* scrapeAllCommunities: the for loop picks startUrls[i] and calls scrapeCommunity
ScrapeNextCommunity ==
    /\ mainPc = "scrape"
    /\ variant = "legacy"
    /\ tpc = "idle"
    /\ li <= Len(cfg.startUrls)
    /\ cur' = Req("community", cfg.startUrls[li].slug, 0, 0)
    /\ tpc' = "access"
    /\ UNCHANGED <<variant, input, fl, pd, cm, server, rt, buildId, ss, src, cfg, mainPc, err, kv, leaked, res, dataset, stats, li,
                   allPosts, page, sc, ex, queue, hist, gate, env>>

\* scrapeAllCommunities: after the loop, logFinalStats and return allPosts;
\* main: if (allPosts.length > 0) storeResults(...)
ReturnAllPosts ==
    /\ mainPc = "scrape"
    /\ variant = "legacy"
    /\ tpc = "idle"
    /\ li > Len(cfg.startUrls)
    /\ mainPc' = IF Len(allPosts) > 0 THEN "store" ELSE "summary"
    /\ UNCHANGED <<variant, input, fl, pd, cm, server, rt, buildId, ss, src, cfg, err, kv, leaked, res, dataset, stats, li, allPosts,
                   tpc, cur, page, sc, ex, queue, hist, gate, env>>

\* storeResults: const batchSize = 100
storeBatchSize == 100

\* storeResults: pushData batch by batch; a failing pushData is rethrown
StoreResults ==
    /\ mainPc = "store"
    /\ LET n == Len(allPosts)
           batches == (n + storeBatchSize - 1) \div storeBatchSize
       IN \E pushed \in (IF env.left > 0 THEN 0 ELSE batches)..batches :
            /\ env' = Spent(pushed < batches)
            /\ dataset' = pushData(dataset, SubSeq(allPosts, 1, Min(n, pushed * storeBatchSize)))
            /\ IF pushed = batches
               THEN /\ mainPc' = "summary"
                    /\ UNCHANGED err
               ELSE /\ mainPc' = "scrapingError"
                    /\ err' = Err("Error", "pushData failed")
    /\ UNCHANGED <<variant, input, fl, pd, cm, server, rt, buildId, ss, src, cfg, kv, leaked, res, stats, li, allPosts, tpc, cur,
                   page, sc, ex, queue, hist, gate>>

\* logCompletionSummary; finally cleanup; 'ACTOR COMPLETED SUCCESSFULLY'
Complete ==
    /\ mainPc = "summary"
    /\ mainPc' = "completed"
    /\ UNCHANGED <<variant, input, fl, pd, cm, server, rt, buildId, ss, src, cfg, err, kv, leaked, res, dataset, stats, li, allPosts,
                   tpc, cur, page, sc, ex, queue, hist, gate, env>>

(***************************************************************************)
(* Traversal of one community with the browser (legacy scrapeCommunity,    *)
(* crawler handleCommunityRequest).                                        *)
(***************************************************************************)
\* the crawler's retry limit: maxRequestRetries: this.input.maxRequestRetries || 3
crawlerRetries == IF cfg.maxRequestRetries = 0 THEN crawlerDefaultRetries ELSE cfg.maxRequestRetries

\* a loop that stops at the first failing community instead of continuing
breakAfterFailedCommunity(i) == Len(cfg.startUrls) + 1

\* scrapeAllCommunities: catch (communityError) { log; continue } -- the loop
\* index the for statement goes to next
afterFailedCommunity(i) == i + 1

\* the catch block of scrapeCommunity / handleCommunityRequest: record the error
\* and rethrow.  Legacy: the loop's catch logs and continues with the next
\* community.  Crawler: the request is retried, or handed to
\* failedRequestHandler once its retries are used up.
\*   faulted:  the cause is a denial by the site or a fault of the environment
\*   event:    the cause counts against the environment's event budget
\*   held:     the posts the traversal had extracted when it threw
TraversalFails(msg, faulted, event, held) ==
    LET entry == ErrorEntry("Community", cur.t, msg)
        final == variant = "crawler" /\ cur.retries >= crawlerRetries
    IN /\ stats' = [stats EXCEPT !.errors =
                       IF final THEN Append(Append(@, entry), ErrorEntry("URL", cur.t, msg))
                       ELSE Append(@, entry)]
       /\ hist' = [hist EXCEPT ![cur.t] =
                       [@ EXCEPT !.outcome = "failed", !.fault = @ \/ faulted,
                                 !.dropped = @ \cup Range(held)]]
       /\ env' = Spent(event)
       /\ li' = IF variant = "legacy" THEN afterFailedCommunity(li) ELSE li
       /\ queue' = IF variant = "crawler" /\ ~final
                   THEN Append(queue, [cur EXCEPT !.retries = @ + 1])
                   ELSE queue
       /\ tpc' = "idle"
       /\ cur' = NoReq
       /\ page' = NoPage
       /\ sc' = NoScroll
       /\ ex' = NoExtract

\* the signals on which the site itself denies the community
DenialSignals == {"gotoThrows", "accessDenied", "privateContent", "loginRequired", "notFound"}

\* const hasAccess = await checkCommunityAccess(page, url); if (!hasAccess) throw
CheckAccess ==
    /\ tpc = "access"
    /\ \E S \in AccessObservations :
         IF checkCommunityAccess(S)
         THEN /\ tpc' = "goto"
              /\ UNCHANGED <<stats, hist, li, queue, cur, page, sc, ex, env>>
         ELSE /\ env.left > 0
              /\ TraversalFails("No access to community", S \cap DenialSignals # {}, TRUE, <<>>)
    /\ UNCHANGED <<variant, input, fl, pd, cm, server, rt, buildId, ss, src, cfg, mainPc, err, kv, leaked, res, dataset, allPosts,
                   gate>>

\* await page.goto(targetUrl); await waitForCommunityContent()
GotoCommunity ==
    /\ tpc = "goto"
    /\ \E gotoThrows \in May, n \in FirstRender :
         IF gotoThrows
         THEN /\ n = PlainRender
              /\ TraversalFails("goto failed", TRUE, TRUE, <<>>)
         ELSE /\ n # PlainRender => env.left > 0
              /\ env' = Spent(n # PlainRender)
              /\ page' = [rendered |-> n, height |-> 1]
              /\ hist' = [hist EXCEPT ![cur.t].zero = @ /\ n = 0]
              /\ sc' = NoScroll
              /\ tpc' = "scroll"
              /\ UNCHANGED <<stats, li, queue, cur, ex>>
    /\ UNCHANGED <<variant, input, fl, pd, cm, server, rt, buildId, ss, src, cfg, mainPc, err, kv, leaked, res, dataset, allPosts,
                   gate>>

\* the page after a scroll or a click: new content may have loaded
Grow(pg, grows) ==
    IF grows THEN [pg EXCEPT !.rendered = @ + 1, !.height = @ + 1] ELSE pg

\* handleInfiniteScroll: one iteration of the while loop
ScrollTick ==
    /\ tpc = "scroll"
    /\ IF sc.scrollAttempts >= maxScrollAttempts
       THEN /\ tpc' = "extract"
            /\ UNCHANGED <<stats, hist, li, queue, cur, page, sc, ex, env>>
       ELSE \E evaluateThrows \in (IF src.given THEN {FALSE} ELSE May),
               clickable \in (IF src.given THEN {src.button = "always"} ELSE May),
               grows \in (IF src.given THEN {src.ticks + 1 < src.lastGrowth} ELSE May) :
            LET currentHeight == page.height
                itemCount == page.rendered
                stable == sc.stableScrollCount + 1
                stagnant == currentHeight = sc.previousHeight /\ stable >= stableLimit
                loadMoreClicked == clickable
            IN IF evaluateThrows
               THEN TraversalFails("Pagination failed", TRUE, TRUE, <<>>)
               ELSE IF cfg.maxItems > 0 /\ itemCount >= cfg.maxItems
               THEN \* reached maximum items limit: break
                    /\ sc' = [sc EXCEPT !.itemCount = itemCount]
                    /\ tpc' = "extract"
                    /\ UNCHANGED <<stats, hist, li, queue, cur, page, ex, env>>
               ELSE IF stagnant /\ ~loadMoreClicked
               THEN \* no more content to load: break
                    /\ sc' = [sc EXCEPT !.itemCount = itemCount, !.stableScrollCount = stable]
                    /\ tpc' = "extract"
                    /\ UNCHANGED <<stats, hist, li, queue, cur, page, ex, env>>
               ELSE /\ sc' = IF currentHeight = sc.previousHeight
                             THEN IF stable >= stableLimit
                                  THEN \* load more worked: reset and continue
                                       [sc EXCEPT !.itemCount = itemCount,
                                                  !.stableScrollCount = 0]
                                  ELSE [sc EXCEPT !.itemCount = itemCount,
                                                  !.stableScrollCount = stable,
                                                  !.scrollAttempts = @ + 1]
                             ELSE [sc EXCEPT !.itemCount = itemCount,
                                             !.stableScrollCount = 0,
                                             !.previousHeight = currentHeight,
                                             !.scrollAttempts = @ + 1]
                    /\ page' = Grow(page, grows)
                    /\ src.given \/ env.left >= Cost(grows) + Cost(stagnant)
                    /\ env' = IF src.given THEN env
                               ELSE [env EXCEPT !.left = @ - Cost(grows) - Cost(stagnant)]
                    /\ hist' = [hist EXCEPT ![cur.t].zero = @ /\ Grow(page, grows).rendered = 0]
                    /\ UNCHANGED <<stats, li, queue, cur, tpc, ex>>
    /\ src' = IF src.given /\ sc.scrollAttempts < maxScrollAttempts
              THEN [src EXCEPT !.ticks = @ + 1]
              ELSE src
    /\ UNCHANGED <<variant, input, fl, pd, cm, server, rt, buildId, ss, cfg, mainPc, err, kv, leaked, res, dataset, allPosts,
                   gate>>

\* smartScroll (adaptiveDelay true, as handlePagination calls it): one iteration
\* of the while (true) loop.  totalScrolls is only ever compared with 5, so it is
\* counted up to 6; the iterations are counted up to the last one that sees a
\* given page grown, after which the page behaves the same for ever.
SmartScrollTick ==
    /\ tpc = "smartScroll"
    /\ \E evaluateThrows \in (IF src.given THEN {FALSE} ELSE May),
          clickable \in (IF src.given THEN {src.button = "always"} ELSE May),
          grows \in (IF src.given THEN {src.ticks + 1 < src.lastGrowth} ELSE May) :
         LET itemCount == page.rendered
             adaptive == ss.totalScrolls > smartWarmup
             itemsGained == itemCount - ss.lastItemCount
             stuckCount == IF adaptive
                           THEN (IF itemsGained = 0 THEN ss.stuckCount + 1 ELSE 0)
                           ELSE ss.stuckCount
             stuck == adaptive /\ stuckCount >= stuckLimit
             loadMoreClicked == clickable
         IN IF evaluateThrows
            THEN /\ TraversalFails("Pagination failed", TRUE, TRUE, <<>>)
                 /\ ss' = NoSmart
            ELSE IF cfg.maxItems > 0 /\ itemCount >= cfg.maxItems
            THEN \* break
                 /\ ss' = [ss EXCEPT !.itemCount = itemCount]
                 /\ tpc' = "extract"
                 /\ UNCHANGED <<stats, hist, li, queue, cur, page, sc, ex, env>>
            ELSE IF stuck /\ ~loadMoreClicked
            THEN \* truly at the end: break
                 /\ ss' = [ss EXCEPT !.itemCount = itemCount, !.stuckCount = stuckCount]
                 /\ tpc' = "extract"
                 /\ UNCHANGED <<stats, hist, li, queue, cur, page, sc, ex, env>>
            ELSE /\ ss' = [itemCount |-> itemCount,
                           lastItemCount |-> itemCount,
                           totalScrolls |-> Min(ss.totalScrolls + 1, smartWarmup + 1),
                           stuckCount |-> IF stuck THEN 0 ELSE stuckCount]
                 /\ page' = Grow(page, grows)
                 /\ src.given \/ env.left >= Cost(grows) + Cost(stuck)
                 /\ env' = IF src.given THEN env
                            ELSE [env EXCEPT !.left = @ - Cost(grows) - Cost(stuck)]
                 /\ hist' = [hist EXCEPT ![cur.t].zero = @ /\ Grow(page, grows).rendered = 0]
                 /\ UNCHANGED <<stats, li, queue, cur, tpc, sc, ex>>
    /\ src' = IF src.given THEN [src EXCEPT !.ticks = Min(@ + 1, src.lastGrowth)] ELSE src
    /\ UNCHANGED <<variant, input, fl, pd, cm, server, rt, buildId, cfg, mainPc, err, kv, leaked, res, dataset,
                   allPosts, gate>>

\* extractPosts: const postElements = await page.$$(postItem); const posts = []
ExtractPosts ==
    /\ tpc = "extract"
    /\ \E queryThrows \in May :
         IF queryThrows
         THEN TraversalFails("Post extraction failed", TRUE, TRUE, <<>>)
         ELSE /\ ex' = [posts |-> <<>>, i |-> 0, n |-> page.rendered, stale |-> FALSE]
              /\ tpc' = IF page.rendered > 0 THEN "batch" ELSE "finish"
              /\ UNCHANGED <<stats, hist, li, queue, cur, page, sc, env>>
    /\ UNCHANGED <<variant, input, fl, pd, cm, server, rt, buildId, ss, src, cfg, mainPc, err, kv, leaked, res, dataset, allPosts,
                   gate>>

\* processBatch: the posts of elements lo..hi, skipping the one that fails to
\* parse.  The element handles were taken from the listing by extractPosts:
\* once extractCommentsForPost has navigated the page to a post's URL (stale),
\* parsePostData throws for every handle, and a navigation in this batch
\* (navigates) leaves only the post whose comments were being fetched
processBatch(t, lo, hi, failing, stale, navigates) ==
    LET F[k \in (lo - 1)..hi] ==
            IF k < lo THEN <<>>
            ELSE IF k # failing THEN Append(F[k - 1], Post(t, k)) ELSE F[k - 1]
    IN IF stale THEN <<>>
       ELSE IF navigates THEN SubSeq(F[hi], 1, Min(1, Len(F[hi])))
       ELSE F[hi]

\* extractPosts: one iteration of the for loop: processBatch, then the delay
\* between batches (requestDelay is validated to be at least 1)
ExtractBatch ==
    /\ tpc = "batch"
    /\ LET lo == ex.i + 1
           hi == Min(ex.i + batchSize, ex.n)
       IN \E failing \in {0} \cup (IF env.left > 0 THEN {lo} ELSE {}),
             waitThrows \in May,
             navigates \in (IF cfg.includeComments /\ ~ex.stale THEN BOOLEAN ELSE {FALSE}) :
            LET batchPosts == processBatch(cur.t, lo, hi, failing, ex.stale, navigates)
                posts == ex.posts \o batchPosts
            IN IF ex.i > 0 /\ waitThrows
               THEN /\ failing = 0
                    /\ TraversalFails("Post extraction failed", TRUE, TRUE, posts)
               ELSE /\ ex' = [ex EXCEPT !.posts = posts, !.i = @ + batchSize,
                                         !.stale = @ \/ (navigates /\ batchPosts # <<>>)]
                    /\ env' = Spent(failing # 0)
                    /\ tpc' = IF ex.i + batchSize < ex.n THEN "batch" ELSE "finish"
                    /\ UNCHANGED <<stats, hist, li, queue, cur, page, sc>>
    /\ UNCHANGED <<variant, input, fl, pd, cm, server, rt, buildId, ss, src, cfg, mainPc, err, kv, leaked, res, dataset, allPosts,
                   gate>>

\* scrapeCommunity: update the statistics and return posts;
\* scrapeAllCommunities: allPosts.push(...posts), next community
FinishCommunity ==
    /\ tpc = "finish"
    /\ variant = "legacy"
    /\ stats' = countCommunity(stats, Len(ex.posts))
    /\ allPosts' = allPosts \o ex.posts
    /\ hist' = [hist EXCEPT ![cur.t].outcome = "ok", ![cur.t].returned = ex.posts]
    /\ li' = li + 1
    /\ tpc' = "idle"
    /\ cur' = NoReq
    /\ page' = NoPage
    /\ sc' = NoScroll
    /\ ex' = NoExtract
    /\ UNCHANGED <<variant, input, fl, pd, cm, server, rt, buildId, ss, src, cfg, mainPc, err, kv, leaked, res, dataset, queue, gate,
                   env>>

(***************************************************************************)
(* Crawler build: initialize, run, handleCommunityRequest.                 *)
(***************************************************************************)
\* SkoolScraper.initialize: new PuppeteerCrawler / new CheerioCrawler; the catch
\* wraps whatever was thrown into a plain Error
InitializeCrawler ==
    /\ mainPc = "initialize"
    /\ variant = "crawler"
    /\ \E createFails \in May :
         /\ env' = Spent(createFails)
         /\ IF createFails
            THEN /\ err' = Wrap("Error", "Scraper initialization failed",
                                Err("Error", "crawler creation failed"))
                 /\ mainPc' = "scrapingError"
                 /\ UNCHANGED res
            ELSE /\ mainPc' = "run"
                 /\ res' = [res EXCEPT !.scraper = TRUE]
                 /\ UNCHANGED err
    /\ UNCHANGED <<variant, input, fl, pd, cm, server, rt, buildId, ss, src, cfg, kv, leaked, dataset, stats, li, allPosts, tpc,
                   cur, page, sc, ex, queue, hist, gate>>

\* run: requests = startUrls.map(...); await this.crawler.run(requests)
RunCrawler ==
    /\ mainPc = "run"
    /\ queue' = [i \in DOMAIN cfg.startUrls |->
                     Req(IF variant = "api" THEN "fetchMainData" ELSE "community",
                         cfg.startUrls[i].slug, 0, 0)]
    /\ mainPc' = "scrape"
    /\ UNCHANGED <<variant, input, fl, pd, cm, server, rt, buildId, ss, src, cfg, err, kv, leaked, res, dataset, stats, li, allPosts,
                   tpc, cur, page, sc, ex, hist, gate, env>>

\* the crawler takes the request at the head of its queue and calls the request
\* handler (handlers run one at a time here; a retried request goes to the tail)
StartRequest ==
    /\ mainPc = "scrape"
    /\ variant = "crawler"
    /\ tpc = "idle"
    /\ queue # <<>>
    /\ cur' = Head(queue)
    /\ queue' = Tail(queue)
    /\ tpc' = "auth"
    /\ res' = [res EXCEPT !.net = TRUE]
    /\ UNCHANGED <<variant, input, fl, pd, cm, server, rt, buildId, ss, src, cfg, mainPc, err, kv, leaked, dataset, stats, li,
                   allPosts, page, sc, ex, hist, gate, env>>

\* handleCommunityRequest: await setupAuthentication(page, this.input.cookies)
AuthenticateRequest ==
    /\ tpc = "auth"
    /\ \E setCookiesFails \in May, S \in AuthObservations :
         LET e == setupAuthentication(setCookiesFails, S)
         IN /\ e # NoErr => env.left > 0
            /\ leaked' = [leaked EXCEPT !.log = @ \/ "value" \in setCookiesLogFields]
            /\ IF e = NoErr
               THEN /\ tpc' = "access"
                    /\ UNCHANGED <<stats, hist, li, queue, cur, page, sc, ex, env>>
               ELSE TraversalFails(e.msg, TRUE, TRUE, <<>>)
    /\ UNCHANGED <<variant, input, fl, pd, cm, server, rt, buildId, ss, src, cfg, mainPc, err, kv, res, dataset, allPosts, gate>>

\* handleCommunityRequest: if (posts.length > 0) await Actor.pushData(posts);
\* then the statistics
FinishRequest ==
    /\ tpc = "finish"
    /\ variant = "crawler"
    /\ \E pushFails \in May :
         IF Len(ex.posts) > 0 /\ pushFails
         THEN /\ TraversalFails("pushData failed", TRUE, TRUE, ex.posts)
              /\ UNCHANGED dataset
         ELSE /\ ~pushFails
              /\ dataset' = pushData(dataset, ex.posts)
              /\ stats' = countCommunity(stats, Len(ex.posts))
              /\ hist' = [hist EXCEPT ![cur.t].outcome = "ok", ![cur.t].returned = ex.posts]
              /\ tpc' = "idle"
              /\ cur' = NoReq
              /\ page' = NoPage
              /\ sc' = NoScroll
              /\ ex' = NoExtract
              /\ UNCHANGED <<li, queue, env>>
    /\ UNCHANGED <<variant, input, fl, pd, cm, server, rt, buildId, ss, src, cfg, mainPc, err, kv, leaked, res, allPosts, gate>>

\* crawler.run resolves once the queue is drained; run logs the final statistics
CrawlerDone ==
    /\ mainPc = "scrape"
    /\ variant \in {"crawler", "api"}
    /\ tpc = "idle"
    /\ queue = <<>>
    /\ mainPc' = "summary"
    /\ UNCHANGED <<variant, input, fl, pd, cm, server, rt, buildId, ss, src, cfg, err, kv, leaked, res, dataset, stats, li, allPosts,
                   tpc, cur, page, sc, ex, queue, hist, gate, env>>

(***************************************************************************)
(* API build: initialize, handleMainDataRequest, handleApiRequest.         *)
(***************************************************************************)
\* validateSkoolCookies: console.warning is not a function, so a list without
\* auth_token throws a TypeError inside the try; the catch rethrows everything as
\* ValidationError.  The structure error embeds JSON.stringify(cookie).
validateSkoolCookies(cookies) ==
    IF Len(cookies) = 0
    THEN Err("ValidationError", "Cookie validation failed: Cookies array is empty or invalid")
    ELSE IF \A i \in DOMAIN cookies : cookies[i].name # "auth_token"
    THEN Err("ValidationError", "Cookie validation failed: console.warning is not a function")
    ELSE IF \E i \in DOMAIN cookies : cookies[i].name = ""
    THEN [cls |-> "ValidationError",
          msg |-> "Cookie validation failed: Invalid cookie structure",
          cause |-> "Invalid cookie structure", leak |-> TRUE]
    ELSE NoErr

\* SkoolScraper.initialize: validateSkoolCookies, setupAuthenticationHeaders,
\* new CheerioCrawler; the catch wraps whatever was thrown into a plain Error
InitializeApi ==
    /\ mainPc = "initialize"
    /\ variant = "api"
    /\ \E createFails \in May :
         LET e == IF validateSkoolCookies(cfg.cookies) # NoErr
                  THEN validateSkoolCookies(cfg.cookies)
                  ELSE IF createFails THEN Err("Error", "crawler creation failed")
                  ELSE NoErr
         IN /\ env' = Spent(createFails)
            /\ IF e = NoErr
               THEN /\ mainPc' = "run"
                    /\ res' = [res EXCEPT !.scraper = TRUE]
                    /\ UNCHANGED err
               ELSE /\ err' = Wrap("Error", "Scraper initialization failed", e)
                    /\ mainPc' = "scrapingError"
                    /\ UNCHANGED res
    /\ UNCHANGED <<variant, input, fl, pd, cm, server, rt, buildId, ss, src, cfg, kv, leaked, dataset, stats, li, allPosts, tpc,
                   cur, page, sc, ex, queue, hist, gate>>

\* the crawler's treatment of a request whose fetch or handler threw: retry it,
\* or call failedRequestHandler (stats.errors.push(`URL ...`)) after the last retry
RequestFails(r, msg, st, faulted, held) ==
    LET final == r.retries >= crawlerRetries
    IN /\ queue' = IF final THEN Tail(queue)
                   ELSE Append(Tail(queue), [r EXCEPT !.retries = @ + 1])
       /\ stats' = IF final
                   THEN [st EXCEPT !.errors = Append(@, ErrorEntry("URL", r.t, msg))]
                   ELSE st
       /\ hist' = [hist EXCEPT ![r.t] =
                       [@ EXCEPT !.outcome = IF final THEN "failed" ELSE @,
                                 !.fault = @ \/ faulted,
                                 !.dropped = @ \cup Range(held)]]

\* the build token in the initial page of community t
BuildToken(t) == t

\* a page request: label, page number and the userData it carries
PageReq(t, p, token, name) ==
    [label |-> "getContentFromCommunity", t |-> t, page |-> p, retries |-> 0,
     buildId |-> token, communityName |-> name]

\* handleMainDataRequest: this.buildId = extractBuildId(body) and the reads of
\* this.buildId for the page-1 request, with no await in between
ownBuildId(own, shared) == own

\* a follow-up that takes the token from the field all handlers share
fieldBuildId(userData, shared) == shared

\* handleApiRequest: const { buildId, communityName } = request.userData
userDataBuildId(userData, shared) == userData.buildId

\* handleMainDataRequest: extractBuildId, stats.communities++, addRequests(page 1)
HandleMainDataRequest ==
    /\ mainPc = "scrape"
    /\ variant = "api"
    /\ queue # <<>>
    /\ Head(queue).label = "fetchMainData"
    /\ LET r == Head(queue)
       IN \E requestFails \in May, noBuildId \in May, addFails \in May :
            /\ Cost(requestFails) + Cost(noBuildId) + Cost(addFails) <= 1
            /\ env' = Spent(requestFails \/ noBuildId \/ addFails)
            /\ buildId' = IF requestFails THEN buildId
                          ELSE IF noBuildId THEN NoBuildId
                          ELSE BuildToken(r.t)
            /\ IF requestFails
               THEN RequestFails(r, "request failed", stats, TRUE, <<>>)
               ELSE IF noBuildId
               THEN RequestFails(r, "Could not extract buildId from page", stats, TRUE, <<>>)
               ELSE IF addFails
               THEN RequestFails(r, "addRequests failed",
                                 [stats EXCEPT !.communities = @ + 1], TRUE, <<>>)
               ELSE /\ stats' = [stats EXCEPT !.communities = @ + 1]
                    /\ queue' = Append(Tail(queue),
                                       PageReq(r.t, 1, ownBuildId(BuildToken(r.t), buildId), r.t))
                    /\ UNCHANGED hist
    /\ res' = [res EXCEPT !.net = TRUE]
    /\ UNCHANGED <<variant, input, fl, pd, cm, server, rt, ss, src, cfg, mainPc, err, kv, leaked, dataset, li, allPosts, tpc,
                   cur, page, sc, ex, gate>>

\* parseSkoolApiResponse + hasCommunitytAccess: the parsed response always
\* carries a posts array, so access is granted whatever the body said
hasCommunitytAccess(body) == TRUE

\* the posts on server page p of community t: n fresh ones, preceded (when the
\* feed has shifted) by the last one of the page before
ServerPage(t, p, n, shifted) ==
    LET base == (p - 1) * (IF server.fixed THEN server.len ELSE MaxPageLen)
    IN (IF shifted /\ p > 1 THEN <<Post(t, base)>> ELSE <<>>)
       \o [k \in 1..n |-> Post(t, base + k)]

\* handleApiRequest: process up to maxItems posts of this page, pushData, queue
\* the next page, stats.processed
HandleApiRequest ==
    /\ mainPc = "scrape"
    /\ variant = "api"
    /\ queue # <<>>
    /\ Head(queue).label = "getContentFromCommunity"
    /\ LET r == Head(queue)
           maxItems == IF cfg.maxItems = 0 THEN apiDefaultMaxItems ELSE cfg.maxItems
       IN \E requestFails \in May, denied \in May, shifted \in May, pushFails \in May,
             addFails \in May,
             n \in (IF server.fixed THEN {server.len} ELSE {0, 1, MaxPageLen}),
             more \in (IF server.fixed THEN {r.page < server.pages} ELSE May) :
            LET body == IF denied THEN "error" ELSE "posts"
                posts == IF denied THEN <<>> ELSE ServerPage(r.t, r.page, n, shifted)
                hasNextPage == more
                processedPosts == SubSeq(posts, 1, Min(Len(posts), maxItems))
                itemCount == Len(processedPosts)
                counted == [stats EXCEPT !.posts = @ + itemCount]
                queued == hasNextPage /\ itemCount < maxItems
                spent == Cost(requestFails) + Cost(denied) + Cost(shifted) + Cost(pushFails)
                           + Cost(addFails)
                           + (IF server.fixed THEN 0
                              ELSE Cost(more) + Cost(~denied /\ n # MaxPageLen))
            IN /\ spent <= env.left
               /\ (requestFails /\ ~server.fixed) =>
                      ~(denied \/ shifted \/ pushFails \/ addFails \/ more) /\ n = MaxPageLen
               /\ (requestFails /\ server.fixed) => ~(pushFails \/ addFails)
               /\ denied => ~(shifted \/ pushFails \/ addFails \/ more) /\ n = 0
                             /\ ~server.fixed
               /\ shifted => r.page > 1 /\ ~server.fixed
               /\ (more /\ ~server.fixed) => r.page < MaxPages
               /\ pushFails => itemCount > 0 /\ ~addFails
               /\ addFails => queued
               /\ env' = [env EXCEPT !.left = @ - spent]
               /\ IF requestFails
                  THEN /\ RequestFails(r, "request failed", stats, TRUE, <<>>)
                       /\ UNCHANGED dataset
                  ELSE IF ~hasCommunitytAccess(body)
                  THEN /\ RequestFails(r, "No access to community", stats, TRUE, <<>>)
                       /\ UNCHANGED dataset
                  ELSE IF pushFails
                  THEN /\ RequestFails(r, "pushData failed", counted, TRUE, processedPosts)
                       /\ UNCHANGED dataset
                  ELSE IF addFails
                  THEN /\ RequestFails(r, "addRequests failed", counted, TRUE, <<>>)
                       /\ dataset' = pushData(dataset, processedPosts)
                  ELSE /\ dataset' = pushData(dataset, processedPosts)
                       /\ stats' = [counted EXCEPT !.processed = addTo(@, itemCount)]
                       /\ queue' = IF queued
                                   THEN Append(Tail(queue),
                                               PageReq(r.t, r.page + 1,
                                                       userDataBuildId(r, buildId),
                                                       r.communityName))
                                   ELSE Tail(queue)
                       /\ hist' = [hist EXCEPT ![r.t] =
                                     [@ EXCEPT !.outcome = IF queued THEN @ ELSE "ok",
                                               !.zero = @ /\ Len(posts) = 0,
                                               !.fault = @ \/ denied,
                                               !.denied = @ \/ denied,
                                               !.returned = @ \o processedPosts]]
    /\ res' = [res EXCEPT !.net = TRUE]
    /\ UNCHANGED <<variant, input, fl, pd, cm, server, rt, buildId, ss, src, cfg, mainPc, err, kv, leaked, li, allPosts, tpc, cur,
                   page, sc, ex, gate>>

Api ==
    \/ InitializeApi
    \/ HandleMainDataRequest
    \/ HandleApiRequest

Legacy ==
    \/ InitializeLegacy
    \/ ScrapeNextCommunity
    \/ ReturnAllPosts
    \/ StoreResults
    \/ FinishCommunity

Crawler ==
    \/ InitializeCrawler
    \/ StartRequest
    \/ AuthenticateRequest
    \/ FinishRequest

\* scraper.run(), shared by the crawler build and the API build
Run ==
    \/ RunCrawler
    \/ CrawlerDone

Traversal ==
    \/ CheckAccess
    \/ GotoCommunity
    \/ ScrollTick
    \/ ExtractPosts
    \/ ExtractBatch

Main ==
    \/ ValidateInput
    \/ OpenDataset
    \/ HandleScrapingError
    \/ HandleFatalError
    \/ Complete

Next == Main \/ Legacy \/ Crawler \/ Run \/ Api \/ Traversal

Spec == Init /\ [][Next]_vars

(***************************************************************************)
(* The access-gate classifiers on their own: every combination of signals  *)
(* is presented to each classifier.                                        *)
(***************************************************************************)
PlainInput ==
    [startUrls |-> [isArray |-> TRUE, items |-> <<Url(1)>>],
     cookies |-> [isArray |-> TRUE, items |-> <<CookieAuth, CookieSession>>],
     maxItems |-> Unset, maxRequestRetries |-> Num(1), includeComments |-> FALSE]

InitGate ==
    /\ variant = "gate"
    /\ input = PlainInput
    /\ server = FreeServer
    /\ src = FreeSource
    /\ InitCommon

GateFrame ==
    UNCHANGED <<variant, input, fl, pd, cm, server, rt, buildId, ss, src, cfg, mainPc, err, kv, leaked, res, dataset, stats, li,
                allPosts, tpc, cur, page, sc, ex, queue, hist, env>>

ClassifyAuthentication ==
    /\ variant = "gate"
    /\ \E S \in SUBSET AuthSignals :
         gate' = [fn |-> "verifyAuthentication", signals |-> S,
                  result |-> verifyAuthentication(S)]
    /\ GateFrame

ClassifyCommunityAccess ==
    /\ variant = "gate"
    /\ \E S \in SUBSET AccessSignals :
         gate' = [fn |-> "checkCommunityAccess", signals |-> S,
                  result |-> checkCommunityAccess(S)]
    /\ GateFrame

ClassifyHtml ==
    /\ variant = "gate"
    /\ \E S \in SUBSET HtmlSignals :
         gate' = [fn |-> "verifyAuthFromHtml", signals |-> S,
                  result |-> verifyAuthFromHtml(S)]
    /\ GateFrame

ClassifyHttpAccess ==
    /\ variant = "gate"
    /\ \E S \in SUBSET HttpSignals :
         gate' = [fn |-> "checkCommunityAccessHttp", signals |-> S,
                  result |-> checkCommunityAccessHttp(S)]
    /\ GateFrame

NextGate ==
    \/ ClassifyAuthentication
    \/ ClassifyCommunityAccess
    \/ ClassifyHtml
    \/ ClassifyHttpAccess

SpecGate == InitGate /\ [][NextGate]_vars

(***************************************************************************)
(* Properties.                                                             *)
(***************************************************************************)
\* the posts of community t in a sequence of posts, in order
PostsOf(seq, t) == SelectSeq(seq, LAMBDA p : p[1] = t)

\* the communities named in the validated input
InputTargets == {cfg.startUrls[i].slug : i \in DOMAIN cfg.startUrls}

\* the run's statistics hold an error entry for community t
HasErrorEntry(t) == \E i \in DOMAIN stats.errors : stats.errors[i].t = t

(* C1: with an item budget maxItems = N > 0, no community ever has more    *)
(* than N posts emitted: neither in what the scroll traversal is about to  *)
(* return nor in what has been pushed to the dataset over all its pages.   *)
C1_ItemBudget ==
    cfg.maxItems > 0 =>
        /\ \A t \in Targets : Len(PostsOf(dataset, t)) <= cfg.maxItems
        /\ tpc = "finish" => Len(ex.posts) <= cfg.maxItems

(* C2: the dataset never holds the same post twice.                        *)
C2_NoDuplicateIds ==
    \A i, j \in DOMAIN dataset : i # j => dataset[i] # dataset[j]

(* C3: once a run of a browser build has completed, every post a traversal *)
(* had obtained before it failed is in the dataset, and the failure is in  *)
(* the error list.                                                         *)
C3_TailFailureKeepsPosts ==
    (variant \in {"legacy", "crawler"} /\ mainPc = "completed") =>
        \A t \in Targets :
            hist[t].dropped # {} =>
                /\ hist[t].dropped \subseteq Range(dataset)
                /\ HasErrorEntry(t)

\* scrapeAllCommunities has returned
LoopReturned == variant = "legacy" /\ mainPc \in {"store", "summary", "completed"}

\* what the communities before position n of startUrls contributed, in order
RECURSIVE Contributed(_)
Contributed(n) ==
    IF n = 0 THEN <<>>
    ELSE LET t == cfg.startUrls[n].slug
         IN Contributed(n - 1) \o (IF hist[t].outcome = "ok" THEN hist[t].returned ELSE <<>>)

(* C4: in scrapeAllCommunities, at every moment the collected sequence is  *)
(* exactly what the successful communities so far returned, in list order: *)
(* a failing community contributes nothing, takes nothing away and has an  *)
(* error entry; and when the loop returns every community of startUrls has *)
(* been traversed.                                                         *)
C4_TargetIsolation ==
    (variant = "legacy" /\ mainPc \in {"scrape", "store", "summary", "completed"}) =>
        /\ allPosts = Contributed(Min(li - 1, Len(cfg.startUrls)))
        /\ \A t \in InputTargets :
              hist[t].outcome = "failed" => PostsOf(allPosts, t) = <<>> /\ HasErrorEntry(t)
        /\ LoopReturned => \A t \in InputTargets : hist[t].outcome \in {"ok", "failed"}

\* the first community failed, the second was still traversed and its posts
\* are in the stored result
C4_Witness ==
    /\ variant = "legacy"
    /\ mainPc = "completed"
    /\ Len(cfg.startUrls) = 2
    /\ hist[1].outcome = "failed"
    /\ hist[2].outcome = "ok"
    /\ PostsOf(dataset, 2) # <<>>
    /\ PostsOf(dataset, 2) = hist[2].returned

\* the platform rejected the session during authentication
AuthRejected ==
    \/ err.cause = "AUTHENTICATION_FAILED"
    \/ \E i \in DOMAIN stats.errors : stats.errors[i].msg = "AUTHENTICATION_FAILED"

(* C5: once the platform has rejected the session during authentication,   *)
(* no community is traversed, the dataset stays empty and the run does not *)
(* complete successfully.                                                  *)
C5_AuthRejectionIsFatal ==
    AuthRejected =>
        /\ tpc \in {"idle", "auth"}
        /\ dataset = <<>>
        /\ mainPc # "completed"

(* C6: a run that has halted on a fatal error has written the record of    *)
(* its classification: VALIDATION_ERROR for an input-validation failure,   *)
(* AUTHENTICATION_ERROR for an authentication failure.                     *)
C6_FatalClassificationRecorded ==
    mainPc = "failed" =>
        /\ err.cls = "ValidationError" => "VALIDATION_ERROR" \in kv
        /\ err.cause \in {"AUTHENTICATION_FAILED", "Authentication setup failed"}
               => "AUTHENTICATION_ERROR" \in kv

\* an input configuration that is invalid: bad target list, bad cookie shape,
\* or out-of-range numeric parameter
BadTargetList(inp) ==
    \/ ~inp.startUrls.isArray
    \/ inp.startUrls.items = <<>>
    \/ \E i \in DOMAIN inp.startUrls.items : inp.startUrls.items[i].host # "www.skool.com"

BadCookieShape(inp) ==
    \/ ~inp.cookies.isArray
    \/ inp.cookies.items = <<>>
    \/ \E i \in DOMAIN inp.cookies.items :
          LET c == inp.cookies.items[i]
          IN c.name = "" \/ c.value = "" \/ c.domain = <<>>

OutOfRange(inp) ==
    \/ inp.maxItems.set /\ (inp.maxItems.v < 0 \/ inp.maxItems.v > 50000)
    \/ inp.maxRequestRetries.set /\ (inp.maxRequestRetries.v < 0 \/ inp.maxRequestRetries.v > 10)

InvalidInput == BadTargetList(input) \/ BadCookieShape(input) \/ OutOfRange(input)

(* C7: with an invalid input configuration the run never gets past         *)
(* validation: it stops with a ValidationError, and the dataset is never   *)
(* opened, no browser or crawler is ever created and no network request is *)
(* ever issued.                                                            *)
C7_ValidationBeforeWork ==
    InvalidInput =>
        /\ mainPc \in {"start", "fatal", "failed"}
        /\ mainPc # "start" => err.cls = "ValidationError"
        /\ ~res.dataset /\ ~res.scraper /\ ~res.net
        /\ dataset = <<>>

\* an out-of-range numeric parameter stopped the run
C7_Witness ==
    /\ OutOfRange(input)
    /\ ~BadTargetList(input)
    /\ ~BadCookieShape(input)
    /\ mainPc = "failed"
    /\ err.cls = "ValidationError"

(* C8: no log line and no record of the key-value side-store ever embeds a *)
(* cookie value.                                                           *)
C8_NoCookieValueLeak == ~leaked.log /\ ~leaked.kv

\* a cookie-validation failure of validateSkoolCookies was reported through
\* handleScrapingError and handleFatalError, which log and store the message
C8_Witness ==
    /\ mainPc = "failed"
    /\ err.cause = "Cookie validation failed: console.warning is not a function"
    /\ \E i \in DOMAIN cfg.cookies : cfg.cookies[i].value = "secret"
    /\ {"SCRAPING_ERROR", "FATAL_ERROR"} \subseteq kv

\* the explicit denial markers each classifier can observe
DenialMarkers(fn) ==
    IF fn = "checkCommunityAccess"
    THEN {"accessDenied", "privateContent", "loginRequired", "redirectedToLogin"}
    ELSE IF fn = "verifyAuthentication" THEN {"loginButton", "profileRedirectsToLogin"}
    ELSE IF fn = "verifyAuthFromHtml" THEN {"loginPath"}
    ELSE IF fn = "checkCommunityAccessHttp" THEN {"redirectedToLogin", "accessDeniedText"}
    ELSE {}

(* C9: whenever the signals presented to a classifier include an explicit  *)
(* denial marker, its result is not-accessible / not-authenticated,        *)
(* whatever other signals are present.                                     *)
C9_DenialTakesPrecedence ==
    gate.signals \cap DenialMarkers(gate.fn) # {} => gate.result = FALSE

\* community t is an accessible community that exposed zero posts and whose
\* traversal has ended
ZeroPostTarget(t) ==
    /\ t \in InputTargets
    /\ hist[t].outcome # "none"
    /\ hist[t].zero
    /\ ~hist[t].fault

C10_ZeroPostsSafe ==
    /\ \A t \in Targets :
          ZeroPostTarget(t) =>
              /\ hist[t].outcome = "ok"
              /\ PostsOf(dataset, t) = <<>>
              /\ PostsOf(allPosts, t) = <<>>
              /\ ~HasErrorEntry(t)
    /\ (InputTargets # {} /\ \A t \in InputTargets : ZeroPostTarget(t)) =>
          mainPc \in {"scrape", "summary", "completed"}

RunEnded == mainPc \in {"completed", "failed"}

\* the legacy build and the API build (scrapeCommunity with
\* handleInfiniteScroll, and handleApiRequest)
InitLegacyApi ==
    /\ variant \in {"legacy", "api"}
    /\ input \in Inputs
    /\ server = FreeServer
    /\ src = FreeSource
    /\ InitCommon

NextLegacyApi == Main \/ Legacy \/ Run \/ Api \/ Traversal

\* the runtime keeps executing the program: every awaited step resolves
FairSpec == InitLegacyApi /\ [][NextLegacyApi]_vars /\ WF_vars(NextLegacyApi)

FeedInputs ==
    [ startUrls : {[isArray |-> TRUE, items |-> <<Url(1)>>]},
      cookies : {[isArray |-> TRUE, items |-> <<CookieAuth, CookieSession>>]},
      maxItems : {Unset, Num(0), Num(5), Num(10), Num(25)},
      maxRequestRetries : {Num(1)},
      includeComments : {FALSE} ]

InitFeed ==
    /\ variant = "api"
    /\ input \in FeedInputs
    /\ server \in [fixed : {TRUE}, pages : 1..3, len : {0, 5, 10, apiDefaultMaxItems + 1}]
    /\ src = FreeSource
    /\ InitCommon

NextFeed == Main \/ Run \/ Api

SpecFeed == InitFeed /\ [][NextFeed]_vars

\* Scenario A: 3 server pages of 10 posts each, maxItems = 25, nothing failing
ScenarioA ==
    /\ server = [fixed |-> TRUE, pages |-> 3, len |-> 10]
    /\ cfg.maxItems = 25
    /\ env.left = MaxEvents

(* C11: in Scenario A the completed run has emitted exactly the first 25   *)
(* posts of the feed in source order, the 25th being the 5th post of page  *)
(* 3, and in no state of the run is more than that in the dataset.         *)
C11_ScenarioA25 ==
    ScenarioA =>
        /\ Len(dataset) <= 25
        /\ mainPc = "completed" => dataset = [k \in 1..25 |-> Post(1, k)]

(***************************************************************************)
(* The pagination loops against a given page: the page is seen grown by    *)
(* the loop iterations up to a last one, and its load-more control either  *)
(* never or always responds to a click.                                    *)
(***************************************************************************)
\* the state in which scrapeCommunity calls handlePagination, which runs
\* smartScroll when input.smartScrolling is set and handleInfiniteScroll otherwise
InitScroll ==
    /\ variant = "legacy"
    /\ input = PlainInput
    /\ \E m \in {0, 2} : cfg = [setDefaults(PlainInput) EXCEPT !.maxItems = m]
    /\ mainPc = "scrape"
    /\ err = NoErr
    /\ kv = {}
    /\ leaked = [log |-> FALSE, kv |-> FALSE]
    /\ res = [dataset |-> TRUE, scraper |-> TRUE, net |-> TRUE]
    /\ dataset = <<>>
    /\ stats = NewStats
    /\ li = 1
    /\ allPosts = <<>>
    /\ tpc \in {"scroll", "smartScroll"}
    /\ cur = Req("community", 1, 0, 0)
    /\ \E n \in {0, 1} : page = [rendered |-> n, height |-> 1]
    /\ sc = NoScroll
    /\ ss = NoSmart
    /\ ex = NoExtract
    /\ queue = <<>>
    /\ hist = [t \in Targets |-> NoHist]
    /\ gate = NoGate
    /\ server = FreeServer
    /\ rt = NoRetry
    /\ buildId = NoBuildId
    /\ cm = NoComments
    /\ pd = NoPostData
    /\ fl = NoFilterCall
    /\ src \in [given : {TRUE}, lastGrowth : 1..MaxGrowthTicks,
                button : {"never", "always"}, ticks : {0}]
    /\ env = [left |-> MaxEvents]

NextScroll == ScrollTick \/ SmartScrollTick

SpecScroll == InitScroll /\ [][NextScroll]_vars

\* the loop keeps running: every awaited page operation resolves
FairScroll == SpecScroll /\ WF_vars(NextScroll)

(* C12: against a page last seen grown by iteration K, handleInfiniteScroll *)
(* has run at most K + 2 iterations when it exits.                         *)
C12_StagnationExit ==
    (src.given /\ tpc = "extract") => src.ticks <= src.lastGrowth + 2

(* C13: every run of a pagination loop, handleInfiniteScroll or            *)
(* smartScroll, comes to an end, whatever the page does.                   *)
C13_ScrollLoopsTerminate == <>(tpc \notin {"scroll", "smartScroll"})

(***************************************************************************)
(* Comment extraction on its own: processBatch calls                       *)
(* extractCommentsForPost for a post when includeComments is set, against  *)
(* a post page whose thread, selectors and failing elements are given.     *)
(***************************************************************************)
\* the elements on which an operation throws: none, or one of these
FailChoices == {{}} \cup {{el} : el \in {<<1>>, <<1, 2>>, <<1, 1, 1>>}}

InitComments ==
    /\ variant = "legacy"
    /\ input = PlainInput
    /\ cfg = [setDefaults(PlainInput) EXCEPT !.includeComments = TRUE]
    /\ mainPc = "scrape"
    /\ err = NoErr
    /\ kv = {}
    /\ leaked = [log |-> FALSE, kv |-> FALSE]
    /\ res = [dataset |-> TRUE, scraper |-> TRUE, net |-> TRUE]
    /\ dataset = <<>>
    /\ stats = NewStats
    /\ li = 1
    /\ allPosts = <<>>
    /\ tpc = "comments"
    /\ cur = Req("community", 1, 0, 0)
    /\ page = [rendered |-> 1, height |-> 1]
    /\ sc = NoScroll
    /\ ss = NoSmart
    /\ ex = NoExtract
    /\ queue = <<>>
    /\ hist = [t \in Targets |-> NoHist]
    /\ gate = NoGate
    /\ server = FreeServer
    /\ rt = NoRetry
    /\ buildId = NoBuildId
    /\ src = FreeSource
    /\ pd = NoPostData
    /\ fl = NoFilterCall
    /\ cm \in [given : {TRUE}, thread : Threads, maxDepth : 1..(MaxThreadDepth + 1),
               pf : FailChoices, qf : FailChoices, unreachable : BOOLEAN,
               replyIsItem : BOOLEAN, done : {FALSE}, out : {<<>>}]
    /\ env = [left |-> MaxEvents]

\* postData.comments = await extractCommentsForPost(page, postData.url)
ExtractComments ==
    /\ tpc = "comments"
    /\ cm.given /\ ~cm.done
    /\ cm' = [cm EXCEPT !.done = TRUE,
                        !.out = extractCommentsForPost(cm.thread, cm.maxDepth, cm.pf, cm.qf,
                                                       cm.unreachable, cm.replyIsItem)]
    /\ UNCHANGED <<variant, input, fl, pd, server, rt, buildId, cfg, mainPc, err, kv, leaked, res, dataset,
                   stats, li, allPosts, tpc, cur, page, sc, ex, queue, hist, gate, src,
                   ss, env>>

NextComments == ExtractComments

SpecComments == InitComments /\ [][NextComments]_vars

\* every comment of list is a reply to parent in the thread, and so on below it
RECURSIVE NestedUnder(_, _)
NestedUnder(list, parent) ==
    \A i \in 1..Len(list) :
        /\ Len(list[i].id) = Len(parent) + 1
        /\ SubSeq(list[i].id, 1, Len(parent)) = parent
        /\ NestedUnder(list[i].replies, list[i].id)

(* C14: in a returned comment tree the top-level comments are the thread's *)
(* root comments and the replies listed under a comment are that comment's *)
(* own replies, one level below it; no reply is listed as a root comment.  *)
C14_DepthMatchesThread == cm.done => NestedUnder(cm.out, <<>>)

\* Scenario D: a comment with 3 replies; handling its 2nd reply throws, either
\* when the reply is parsed or when the reply's own replies are looked up
ScenarioD ==
    /\ cm.done /\ ~cm.unreachable /\ ~cm.replyIsItem
    /\ cm.thread[2] = 3
    /\ cm.maxDepth >= 2
    /\ <<1, 2>> \in cm.pf \cup cm.qf
    /\ <<1>> \notin cm.pf \cup cm.qf

(* C15: when handling the 2nd of a comment's 3 replies throws, the comment *)
(* is returned and still lists each of its 3 replies, the failing one with *)
(* an empty sequence of replies.                                           *)
C15_FailingChildKept ==
    ScenarioD =>
        /\ Len(cm.out) >= 1
        /\ cm.out[1].id = <<1>>
        /\ \A k \in 1..3 : \E i \in 1..Len(cm.out[1].replies) :
               /\ cm.out[1].replies[i].id = <<1, k>>
               /\ k = 2 => cm.out[1].replies[i].replies = <<>>

\* a comes before b in the thread as the page lists it (document order)
Before(a, b) ==
    \E i \in 1..(Min(Len(a), Len(b)) + 1) :
        /\ \A k \in 1..(i - 1) : a[k] = b[k]
        /\ \/ i > Len(a) /\ i <= Len(b)
           \/ i <= Len(a) /\ i <= Len(b) /\ a[i] < b[i]

\* at every level of the tree the comments come in the thread's order
RECURSIVE InThreadOrder(_)
InThreadOrder(list) ==
    /\ \A i, j \in 1..Len(list) : i < j <=> Before(list[i].id, list[j].id)
    /\ \A i \in 1..Len(list) : InThreadOrder(list[i].replies)

(* C16: at every level of a returned comment tree, two comments that are   *)
(* both returned appear in the order in which the thread lists them.       *)
C16_SourceOrderKept == cm.done => InThreadOrder(cm.out)

\* a tree with two top-level comments, three replies under the first, and an
\* element dropped in between
C16_Witness ==
    /\ cm.done
    /\ Len(cm.out) = 2
    /\ Len(cm.out[1].replies) >= 3
    /\ cm.pf = {<<1, 2>>}

\* the tree has at most n nesting levels, its top level being the first
RECURSIVE WithinLevels(_, _)
WithinLevels(list, n) ==
    \/ list = <<>>
    \/ /\ n >= 1
       /\ \A i \in 1..Len(list) : WithinLevels(list[i].replies, n - 1)

(* C17: the tree returned by extractCommentsForPost(post, maxDepth) has at *)
(* most maxDepth nesting levels, however deep the thread is.               *)
C17_DepthBounded == cm.done => WithinLevels(cm.out, cm.maxDepth)

\* a thread of four levels cut to the two levels asked for
C17_Witness ==
    /\ cm.done
    /\ cm.thread[MaxThreadDepth] = 1
    /\ cm.maxDepth = 2
    /\ WithinLevels(cm.out, 2) /\ ~WithinLevels(cm.out, 1)

(***************************************************************************)
(* The comments field of an emitted post: processPost in the api build,    *)
(* processBatch's comment step in the legacy and crawler builds, applied   *)
(* to one post as the source gives it.                                     *)
(***************************************************************************)
\* what an API post carries as comments and as commentCount
RawComments == {Undefined, NumV(0), NumV(3), Arr(<<>>), Arr(<<1>>), Arr(<<1, 2, 3>>)}
RawCounts == {Undefined, NumV(0), NumV(2)}

InitPostData ==
    /\ variant \in {"legacy", "crawler", "api"}
    /\ input = PlainInput
    /\ \E b \in BOOLEAN : cfg = [setDefaults(PlainInput) EXCEPT !.includeComments = b]
    /\ mainPc = "scrape"
    /\ err = NoErr
    /\ kv = {}
    /\ leaked = [log |-> FALSE, kv |-> FALSE]
    /\ res = [dataset |-> TRUE, scraper |-> TRUE, net |-> TRUE]
    /\ dataset = <<>>
    /\ stats = NewStats
    /\ li = 1
    /\ allPosts = <<>>
    /\ tpc = "post"
    /\ cur = Req("community", 1, 0, 0)
    /\ page = [rendered |-> 1, height |-> 1]
    /\ sc = NoScroll
    /\ ss = NoSmart
    /\ ex = NoExtract
    /\ queue = <<>>
    /\ hist = [t \in Targets |-> NoHist]
    /\ gate = NoGate
    /\ server = FreeServer
    /\ rt = NoRetry
    /\ buildId = NoBuildId
    /\ src = FreeSource
    /\ cm = NoComments
    /\ fl = NoFilterCall
    /\ IF variant = "api"
       THEN pd \in [given : {TRUE}, comments : RawComments, commentCount : RawCounts,
                    commentsLimit : {0, 2}, hasUrl : {TRUE}, throws : {FALSE},
                    thread : {<<>>}, unreachable : {FALSE}, done : {FALSE},
                    post : {[comments |-> Undefined]}]
       ELSE pd \in [given : {TRUE}, comments : {Undefined}, commentCount : {Undefined},
                    commentsLimit : {0}, hasUrl : BOOLEAN, throws : BOOLEAN,
                    thread : Threads, unreachable : BOOLEAN, done : {FALSE},
                    post : {[comments |-> Undefined]}]
    /\ env = [left |-> MaxEvents]

PostFrame ==
    UNCHANGED <<variant, input, fl, cm, server, rt, buildId, cfg, mainPc, err, kv, leaked, res, dataset,
                stats, li, allPosts, tpc, cur, page, sc, ex, queue, hist, gate, src,
                ss, env>>

\* api build: const processedPost = await this.processPost(post, ...)
ProcessPost ==
    /\ tpc = "post" /\ variant = "api"
    /\ pd.given /\ ~pd.done
    /\ pd' = [pd EXCEPT !.done = TRUE,
                        !.post = processPost(pd, cfg.includeComments, pd.commentsLimit)]
    /\ PostFrame

\* legacy and crawler builds: one post of processBatch
ProcessBatchPost ==
    /\ tpc = "post" /\ variant \in {"legacy", "crawler"}
    /\ pd.given /\ ~pd.done
    /\ pd' = [pd EXCEPT !.done = TRUE,
                        !.post = processBatchComments(cfg.includeComments, pd.hasUrl,
                                                      pd.throws, pd.thread, pd.unreachable)]
    /\ PostFrame

NextPostData == ProcessPost \/ ProcessBatchPost

SpecPostData == InitPostData /\ [][NextPostData]_vars

(* C18: every emitted post has a comments field that is a sequence, and    *)
(* the sequence is empty when includeComments is not set.                  *)
C18_CommentsIsSequence ==
    pd.done =>
        /\ pd.post.comments.type = "array"
        /\ ~cfg.includeComments => pd.post.comments.items = <<>>

(***************************************************************************)
(* Filtering on its own: processAdvancedFilters applied to a list of posts *)
(* under the caller's searchFilters and searchPresets.                     *)
(***************************************************************************)
\* posts on either side of the callers' and the presets' thresholds; post 3 is
\* of today, after midnight; posts 2 and 4 have as many likes, posts 1 and 3 as
\* many comments and the same title
FilterPosts ==
    { [id |-> 1, likes |-> 60, comments |-> 12, createdAt |-> 78, words |-> {"k"},
       author |-> "ann", title |-> 2],
      [id |-> 2, likes |-> 7, comments |-> 0, createdAt |-> 10, words |-> {},
       author |-> "bob", title |-> 1],
      [id |-> 3, likes |-> 0, comments |-> 12, createdAt |-> 81, words |-> {"k", "x"},
       author |-> "bob", title |-> 2],
      [id |-> 4, likes |-> 7, comments |-> 12, createdAt |-> 40, words |-> {"x"},
       author |-> "ann", title |-> 3] }

\* lists of distinct posts
FilterPostLists ==
    UNION { { q \in [1..n -> FilterPosts] : \A i, j \in 1..n : i # j => q[i] # q[j] }
            : n \in 0..MaxFilterPosts }

\* what the caller gives for a group: nothing (<<>>) or one object
DateRangeChoices ==
    { <<>>, <<[enabled |-> TRUE, startDate |-> 4, endDate |-> 39]>>,
      <<[enabled |-> FALSE, startDate |-> 4, endDate |-> 39]>>,
      <<[enabled |-> TRUE, startDate |-> 4]>>, <<[enabled |-> TRUE]>> }
EngagementChoices ==
    { <<>>, <<[enabled |-> TRUE, minLikes |-> 5]>>, <<[enabled |-> FALSE, minLikes |-> 5]>>,
      <<[enabled |-> TRUE, minLikes |-> 5, maxLikes |-> 30, minComments |-> 1]>>,
      <<[enabled |-> TRUE, maxLikes |-> 0]>> }
ContentChoices ==
    { <<>>, <<[enabled |-> TRUE, keywords |-> {"k"}, excludeKeywords |-> {"x"}]>>,
      <<[enabled |-> FALSE, keywords |-> {"k"}]>> }
AuthorsChoices ==
    { <<>>, <<[enabled |-> TRUE, excludeAuthors |-> {"bob"}]>>,
      <<[enabled |-> FALSE, includeAuthors |-> {"bob"}]>> }
SortingChoices ==
    { <<>>, <<[sortBy |-> "likes", sortOrder |-> "asc"]>>, <<[sortBy |-> "likes"]>>,
      <<[sortBy |-> "comments", sortOrder |-> "desc"]>>,
      <<[sortBy |-> "alphabetical", sortOrder |-> "asc"]>>,
      <<[sortBy |-> "alphabetical", sortOrder |-> "desc"]>>,
      <<[sortBy |-> "date", sortOrder |-> "asc"]>>,
      <<[sortBy |-> "engagement", sortOrder |-> "desc"]>> }

\* input.searchFilters with the groups the caller gave
SearchFilters(d, e, c, a, s) ==
    LET all == [dateRange |-> d, engagement |-> e, content |-> c, authors |-> a, sorting |-> s]
    IN [g \in {k \in DOMAIN all : all[k] # <<>>} |-> all[g][1]]

InitFilters ==
    /\ variant = "api"
    /\ input = PlainInput
    /\ cfg = setDefaults(PlainInput)
    /\ mainPc = "scrape"
    /\ err = NoErr
    /\ kv = {}
    /\ leaked = [log |-> FALSE, kv |-> FALSE]
    /\ res = [dataset |-> TRUE, scraper |-> TRUE, net |-> TRUE]
    /\ dataset = <<>>
    /\ stats = NewStats
    /\ li = 1
    /\ allPosts = <<>>
    /\ tpc = "filters"
    /\ cur = Req("community", 1, 0, 0)
    /\ page = [rendered |-> 1, height |-> 1]
    /\ sc = NoScroll
    /\ ss = NoSmart
    /\ ex = NoExtract
    /\ queue = <<>>
    /\ hist = [t \in Targets |-> NoHist]
    /\ gate = NoGate
    /\ server = FreeServer
    /\ rt = NoRetry
    /\ buildId = NoBuildId
    /\ src = FreeSource
    /\ cm = NoComments
    /\ pd = NoPostData
    /\ \E posts \in FilterPostLists, d \in DateRangeChoices, e \in EngagementChoices,
          c \in ContentChoices, a \in AuthorsChoices, s \in SortingChoices,
          preset \in {"none", "high-engagement", "recent-posts"} :
            fl = [given |-> TRUE, posts |-> posts,
                  searchFilters |-> SearchFilters(d, e, c, a, s),
                  searchPresets |-> preset, now |-> 81, done |-> FALSE,
                  criteria |-> <<>>, out |-> <<>>,
                  analytics |-> [originalCount |-> 0, filteredCount |-> 0],
                  callerPosts |-> posts, redone |-> FALSE, now2 |-> 0, again |-> <<>>,
                  twice |-> <<>>]
    /\ env = [left |-> MaxEvents]

\* const { posts, analytics } = processAdvancedFilters(posts, input)
ProcessAdvancedFilters ==
    /\ tpc = "filters"
    /\ fl.given /\ ~fl.done
    /\ LET r == processAdvancedFilters(fl.posts, fl.searchFilters, fl.searchPresets, fl.now)
       IN fl' = [fl EXCEPT !.done = TRUE, !.criteria = r.criteria, !.out = r.posts,
                           !.analytics = r.analytics, !.callerPosts = r.callerPosts]
    /\ UNCHANGED <<variant, input, pd, cm, server, rt, buildId, cfg, mainPc, err, kv, leaked, res,
                   dataset, stats, li, allPosts, tpc, cur, page, sc, ex, queue, hist,
                   gate, src, ss, env>>

\* the same criteria applied once more, at the same instant or later: to the
\* posts the first call returned, and to the caller's posts again
ReapplyFilters ==
    /\ tpc = "filters"
    /\ fl.done /\ ~fl.redone
    /\ \E later \in {0, 1} :
         LET now2 == fl.now + later
             a == processAdvancedFilters(fl.out, fl.criteria, "none", now2)
             t == processAdvancedFilters(fl.callerPosts, fl.criteria, "none", now2)
         IN fl' = [fl EXCEPT !.redone = TRUE, !.now2 = now2, !.again = a.posts,
                             !.twice = t.posts]
    /\ UNCHANGED <<variant, input, pd, cm, server, rt, buildId, cfg, mainPc, err, kv, leaked, res,
                   dataset, stats, li, allPosts, tpc, cur, page, sc, ex, queue, hist,
                   gate, src, ss, env>>

NextFilters == ProcessAdvancedFilters \/ ReapplyFilters

SpecFilters == InitFilters /\ [][NextFilters]_vars

(* C19: when a preset and explicit searchFilters are both given, the       *)
(* criteria applied have the caller's value in every field the caller set, *)
(* sorting and single thresholds included, and the preset's value in the   *)
(* fields the caller left unset.                                           *)
C19_CallerFieldsWin ==
    (fl.done /\ fl.searchPresets # "none") =>
        LET caller == fl.searchFilters
            preset == getPresetConfig(fl.searchPresets, fl.now)
        IN /\ \A g \in DOMAIN caller : \A f \in DOMAIN caller[g] :
                  /\ Has(fl.criteria, g) /\ Has(fl.criteria[g], f)
                  /\ fl.criteria[g][f] = caller[g][f]
           /\ \A g \in DOMAIN preset : \A f \in DOMAIN preset[g] :
                  ~(Has(caller, g) /\ Has(caller[g], f)) =>
                      /\ Has(fl.criteria, g) /\ Has(fl.criteria[g], f)
                      /\ fl.criteria[g][f] = preset[g][f]

\* post p passes every enabled group of the criteria
PassesEnabledGroups(p, searchFilters, now) ==
    /\ Enabled(searchFilters, "dateRange") => inDateRange(p, searchFilters.dateRange, now)
    /\ Enabled(searchFilters, "engagement") => hasEngagement(p, searchFilters.engagement)
    /\ Enabled(searchFilters, "content") => hasContent(p, searchFilters.content)
    /\ Enabled(searchFilters, "authors") => hasAuthor(p, searchFilters.authors)

\* the input posts that pass every enabled group, in input order
Retained ==
    SelectSeq(fl.posts, LAMBDA p : PassesEnabledGroups(p, fl.criteria, fl.now))

SortKey(p, sorting) ==
    LET sortBy == IF Has(sorting, "sortBy") THEN sorting.sortBy ELSE "date"
    IN CASE sortBy = "likes" -> p.likes
         [] sortBy = "comments" -> p.comments
         [] sortBy = "engagement" -> p.likes + p.comments
         [] sortBy = "alphabetical" -> p.title
         [] OTHER -> p.createdAt

\* where post p stands in the caller's list
InputIndex(p) == CHOOSE i \in 1..Len(fl.posts) : fl.posts[i] = p

(* C21: when sorting is asked for, the output is a permutation of the      *)
(* filtered posts, ordered by the sort field in the direction asked for    *)
(* (asc or desc), and posts with equal sort key keep their input order.    *)
C21_StableSortAfterFilter ==
    (fl.done /\ Has(fl.criteria, "sorting")) =>
        LET sorting == fl.criteria.sorting
        IN /\ Len(fl.out) = Len(Retained)
           /\ Range(fl.out) = Range(Retained)
           /\ \A i, j \in 1..Len(fl.out) : i < j =>
                  LET ki == SortKey(fl.out[i], sorting)
                      kj == SortKey(fl.out[j], sorting)
                  IN /\ (Has(sorting, "sortOrder") /\ sorting.sortOrder = "asc") => ki <= kj
                     /\ (Has(sorting, "sortOrder") /\ sorting.sortOrder = "desc") => ki >= kj
                     /\ ki = kj => InputIndex(fl.out[i]) < InputIndex(fl.out[j])

C23_InputNotMutated == fl.done => fl.callerPosts = fl.posts

\* sorting alone, on posts that the sort reorders
C23_Witness ==
    /\ fl.done
    /\ DOMAIN fl.criteria = {"sorting"}
    /\ Len(fl.posts) = 2
    /\ fl.out # fl.posts

(***************************************************************************)
(* The way to the output sink when the input carries searchFilters: the    *)
(* legacy and the api build, run on an input whose filter criteria are     *)
(* given.  No build imports filters.js, so no action applies the criteria. *)
(***************************************************************************)
\* the searchFilters of the input: a likes threshold, with or without a sort
SinkFilters ==
    { SearchFilters(<<>>, <<[enabled |-> TRUE, minLikes |-> 5]>>, <<>>, <<>>, s) :
        s \in {<<>>, <<[sortBy |-> "likes", sortOrder |-> "desc"]>>} }

\* post k of a community as the filters see it: the posts with an even number
\* have likes, the others none
PostView(p) ==
    [id |-> p, likes |-> IF p[2] % 2 = 0 THEN 60 ELSE 0, comments |-> 12,
     createdAt |-> 78, words |-> {"k"}, author |-> "ann", title |-> p[2]]

InitSink ==
    /\ variant \in {"legacy", "api"}
    /\ input \in Inputs
    /\ server = FreeServer
    /\ src = FreeSource
    /\ fl \in {[NoFilterCall EXCEPT !.searchFilters = sf] : sf \in SinkFilters}
    /\ rt = NoRetry
    /\ InitBase

NextSink == Main \/ Legacy \/ Run \/ Api \/ Traversal

SpecSink == InitSink /\ [][NextSink]_vars

\* the dataset as the filters see it
SinkView == [i \in 1..Len(dataset) |-> PostView(dataset[i])]

(* C24: every post appended to the dataset satisfies the configured filter *)
(* criteria, and the appended sequence is in the configured sort order.    *)
C24_SinkIsFiltered ==
    /\ \A i \in 1..Len(dataset) : PassesEnabledGroups(SinkView[i], fl.searchFilters, fl.now)
    /\ Has(fl.searchFilters, "sorting") =>
           SinkView = sortPosts(SinkView, fl.searchFilters.sorting)

(* C25: with maxItems = 0 the budget is unbounded: validateInput keeps the *)
(* 0, and a run in which nothing fails emits every post the feed serves    *)
(* for the community, none being left out for the number already obtained. *)
C25_ZeroIsUnbounded ==
    (server.fixed /\ input.maxItems = Num(0) /\ cfg # NoCfg) =>
        /\ cfg.maxItems = 0
        /\ (mainPc = "completed" /\ env.left = MaxEvents) =>
               Len(PostsOf(dataset, 1)) = server.pages * server.len

\* the failures of a traversal step that come from the network: a navigation
\* or a request that throws or times out
NetworkFailures == {"goto failed", "request failed"}

\* the traversal of community t was ended by a network failure: the legacy
\* build records that as a Community entry, the crawler builds as the URL entry
\* of failedRequestHandler
EndedByNetworkFailure(t) ==
    \E i \in DOMAIN stats.errors :
        /\ stats.errors[i].t = t
        /\ stats.errors[i].msg \in NetworkFailures
        /\ stats.errors[i].kind = (IF variant = "legacy" THEN "Community" ELSE "URL")

(* C26: a target's traversal is ended by a network failure only after the  *)
(* failing step was retried up to the retry ceiling: at least one failure  *)
(* more than the ceiling has happened by then, so a single transient       *)
(* failure does not end it.                                                *)
C26_RetriedBeforeAbandon ==
    cfg # NoCfg =>
        \A t \in Targets :
            EndedByNetworkFailure(t) => MaxEvents - env.left >= 1 + crawlerRetries

\* processBatch has skipped a post of the community being traversed: fewer
\* posts are held than elements were processed
PostSkipped ==
    /\ tpc \in {"batch", "finish"}
    /\ Len(ex.posts) < Min(ex.i, ex.n)

(* C27: every recovered failure has its entry in the error list of the run *)
(* statistics: once a post was skipped during extraction, the list holds   *)
(* an entry for its community.                                             *)
C27_RecoveredFailuresCounted == PostSkipped => HasErrorEntry(cur.t)

\* the validated cookie set holds no cookie named auth_token, the session
\* cookie validateSkoolCookies asks for
LacksSessionCookie ==
    /\ cfg # NoCfg
    /\ \A i \in DOMAIN cfg.cookies : cfg.cookies[i].name # "auth_token"

\* the messages of the AuthenticationError thrown by setupAuthentication
AuthenticationErrorMessages == {"AUTHENTICATION_FAILED", "Authentication setup failed"}

\* a request for the content of some community has been issued: a request was
\* taken from the queue, or a traversal has started or left its outcome
ContentFetchIssued ==
    \/ cur # NoReq
    \/ tpc # "idle"
    \/ \E t \in Targets : hist[t] # NoHist

(* C28: with a cookie set that lacks the session cookie no request for the *)
(* content of a community is issued, and once initialization is over the   *)
(* run holds the AuthenticationError of the access gate.                   *)
C28_MissingSessionCookieGated ==
    LacksSessionCookie =>
        /\ ~ContentFetchIssued
        /\ mainPc \notin {"openDataset", "initialize"} => err.cause \in AuthenticationErrorMessages

\* the queued requests for a feed page
PageRequests(q) == {i \in DOMAIN q : q[i].label = "getContentFromCommunity"}

\* a queued request for a page after the first was declared by the feed: the
\* page before it is not the last one the server has
FollowUpsDeclared ==
    \A i \in PageRequests(queue) :
        queue[i].page > 1 => queue[i].page - 1 < server.pages

\* a request for a page after the first is queued only while the community
\* has fewer posts in the dataset than the item budget
FollowUpsWithinBudget ==
    \A i \in PageRequests(queue) :
        (queue[i].page > 1 /\ cfg.maxItems > 0)
            => Len(PostsOf(dataset, queue[i].t)) < cfg.maxItems

\* every page request entering the queue is the first page queued by the
\* main data request, the page after the one just handled, or a request that
\* was already there (held, or put back for a retry)
CursorStep ==
    \A i \in PageRequests(queue') :
        LET q == queue'[i]
        IN \/ \E j \in PageRequests(queue) : queue[j].t = q.t /\ queue[j].page = q.page
           \/ /\ Head(queue).label = "fetchMainData"
              /\ Head(queue).t = q.t
              /\ q.page = 1
           \/ /\ Head(queue).label = "getContentFromCommunity"
              /\ Head(queue).t = q.t
              /\ q.page = Head(queue).page + 1

(* C29: the cursor of a community starts at page 1 and every follow-up     *)
(* request asks for the page after the one just handled; a follow-up is    *)
(* queued only if the feed declared a next page and the item budget of the *)
(* community is not reached, so no page after the feed's last is requested.*)
C29_PageCursor ==
    /\ [](FollowUpsDeclared /\ FollowUpsWithinBudget)
    /\ [][CursorStep]_vars

\* the feed page that exposes post number k of a community
PageOf(k) ==
    LET len == IF server.fixed THEN server.len ELSE MaxPageLen
    IN IF len = 0 THEN 1 ELSE ((k - 1) \div len) + 1

\* the posts of community t in the dataset follow the feed: no post of a
\* later page stands before a post of an earlier page, and a post stands after
\* one with a higher number only as the repeat of an emission made before it
InFeedOrder(t) ==
    LET s == PostsOf(dataset, t)
    IN \A i, j \in DOMAIN s :
         i < j =>
            /\ PageOf(s[i][2]) <= PageOf(s[j][2])
            /\ s[j][2] < s[i][2] => \E h \in 1..(i - 1) : s[h] = s[j]

(* C30: within one community the posts are in the dataset in the order the *)
(* source exposes them: every post of page p before any post of page p+1,  *)
(* the posts of one page in the order of the response, whatever requests   *)
(* of other communities are handled in between.                            *)
C30_SourceOrderInSink == \A t \in Targets : InFeedOrder(t)

\* the api build has pushed two pages of one community with requests of the
\* other community handled in between
C30_Witness ==
    /\ variant = "api"
    /\ \E i, j \in DOMAIN dataset :
         /\ i + 1 < j
         /\ dataset[i][1] = dataset[j][1]
         /\ PageOf(dataset[i][2]) < PageOf(dataset[j][2])
         /\ \E h \in (i + 1)..(j - 1) : dataset[h][1] # dataset[i][1]

\* the host name d is skool.com or one of its subdomains
IsPlatformDomain(d) ==
    \/ d = SkoolDomain
    \/ /\ Len(d) > Len(SkoolDomain)
       /\ SubSeq(d, Len(d) - Len(SkoolDomain), Len(d)) = <<".">> \o SkoolDomain

\* a non-empty cookie list whose cookies all have a name, a value and a
\* domain of the platform
AcceptableCookies(ck) ==
    /\ ck.isArray
    /\ ck.items # <<>>
    /\ \A i \in DOMAIN ck.items :
          LET c == ck.items[i]
          IN c.name # "" /\ c.value # "" /\ c.domain # <<>> /\ IsPlatformDomain(c.domain)

(* C31: validateInput accepts a cookie set only if it is non-empty and     *)
(* every cookie has a name, a value and a domain that is skool.com or one  *)
(* of its subdomains; with any other cookie set validation ends in a       *)
(* ValidationError and no validated input exists.                          *)
C31_CookieSetChecked ==
    (mainPc # "start" /\ ~AcceptableCookies(input.cookies)) =>
        /\ cfg = NoCfg
        /\ err.cls = "ValidationError"

\* the number of posts the handlers of the communities in S have reported
RECURSIVE PostsReturned(_)
PostsReturned(S) ==
    IF S = {} THEN 0
    ELSE LET t == CHOOSE x \in S : TRUE
         IN Len(hist[t].returned) + PostsReturned(S \ {t})

\* no counter of the statistics goes down and the error list only grows at
\* its end
CountersAddOnly ==
    /\ stats'.totalPosts >= stats.totalPosts
    /\ stats'.totalComments >= stats.totalComments
    /\ stats'.communitiesProcessed >= stats.communitiesProcessed
    /\ stats'.processed >= stats.processed
    /\ stats'.communities >= stats.communities
    /\ stats'.posts >= stats.posts
    /\ Len(stats'.errors) >= Len(stats.errors)
    /\ SubSeq(stats'.errors, 1, Len(stats.errors)) = stats.errors

\* between handlers the post counter of the build holds the sum of what the
\* handlers of all communities have added, and the browser builds have counted
\* one community for every traversal that ended well
CountersHoldSums ==
    (cfg # NoCfg /\ tpc = "idle") =>
        /\ variant = "api" => stats.processed = PostsReturned(Targets)
        /\ variant # "api" =>
              /\ stats.totalPosts = PostsReturned(Targets)
              /\ stats.communitiesProcessed
                    = Cardinality({t \in Targets : hist[t].outcome = "ok"})

MaxRetryCeiling == 3

\* async handleWithRetry(operation, maxRetries = 3)
defaultMaxRetries == 3

\* what the operation can throw, and what it can return
OperationErrors == {"TimeoutError", "NetworkError", "Error"}

OperationResults == {"posts", "nothing"}

RECURSIVE Pow2(_)
Pow2(n) == IF n = 0 THEN 1 ELSE 2 * Pow2(n - 1)

\* a delay that grows by one second with every attempt
backoffLinear(attempt) == attempt + 1

\* const delayMs = Math.pow(2, attempt) * 1000, in seconds
backoffSeconds(attempt) == Pow2(attempt)

\* the call of handleWithRetry on an initialized scraper, before its loop
InitRetry ==
    /\ variant = "legacy"
    /\ input = PlainInput
    /\ server = FreeServer
    /\ src = FreeSource
    /\ fl = NoFilterCall
    /\ InitBase
    /\ \E m \in (0..MaxRetryCeiling) \cup {defaultMaxRetries} :
         rt = [NoRetry EXCEPT !.given = TRUE, !.maxRetries = m, !.attempt = 1, !.pc = "loop"]

RetryFrame ==
    UNCHANGED <<variant, input, fl, pd, cm, server, buildId, cfg, mainPc, err, kv, leaked, res,
                dataset, stats, li, allPosts, tpc, cur, page, sc, ex, queue, hist, gate, src,
                ss, env>>

\* for (let attempt = 1; attempt <= maxRetries; attempt++), and throw lastError
\* after the loop: lastError is undefined when no call was made
EnterRetryLoop ==
    /\ rt.given /\ rt.pc = "loop"
    /\ IF rt.attempt <= rt.maxRetries
       THEN rt' = [rt EXCEPT !.pc = "call"]
       ELSE rt' = [rt EXCEPT !.pc = "thrown",
                             !.thrown = IF rt.errors = <<>> THEN "undefined"
                                        ELSE rt.errors[Len(rt.errors)]]
    /\ RetryFrame

\* return await operation(); the catch keeps the error in lastError and, when
\* attempt < maxRetries, goes on to wait; otherwise the loop goes round
CallOperation ==
    /\ rt.given /\ rt.pc = "call"
    /\ \/ \E v \in OperationResults :
            rt' = [rt EXCEPT !.calls = @ + 1, !.result = v, !.pc = "returned"]
       \/ \E e \in OperationErrors :
            rt' = [rt EXCEPT !.calls = @ + 1,
                             !.errors = Append(@, e),
                             !.attempt = IF rt.attempt < rt.maxRetries THEN @ ELSE @ + 1,
                             !.pc = IF rt.attempt < rt.maxRetries THEN "wait" ELSE "loop"]
    /\ RetryFrame

\* await this.page.waitForTimeout(delayMs) inside the catch: when it throws,
\* its error leaves handleWithRetry
Backoff ==
    /\ rt.given /\ rt.pc = "wait"
    /\ \E waitFails \in BOOLEAN :
         IF waitFails
         THEN rt' = [rt EXCEPT !.pc = "thrown", !.thrown = "waitForTimeout failed"]
         ELSE rt' = [rt EXCEPT !.waits = Append(@, backoffSeconds(rt.attempt)),
                               !.attempt = @ + 1,
                               !.pc = "loop"]
    /\ RetryFrame

NextRetry == EnterRetryLoop \/ CallOperation \/ Backoff

SpecRetry == InitRetry /\ [][NextRetry]_vars

\* handleWithRetry has returned or thrown
RetryEnded == rt.pc \in {"returned", "thrown"}

\* what holds of a call of handleWithRetry at every point
RetryBounded ==
    /\ rt.calls <= rt.maxRetries
    /\ rt.result # "none" => rt.pc = "returned" /\ rt.calls = Len(rt.errors) + 1
    /\ \A k \in DOMAIN rt.waits : rt.waits[k] = Pow2(k)
    /\ Len(rt.waits) <= Len(rt.errors)
    /\ Len(rt.waits) < rt.maxRetries \/ rt.waits = <<>>
    /\ (rt.pc = "thrown" /\ rt.thrown \in OperationErrors) =>
          /\ Len(rt.errors) = rt.maxRetries
          /\ rt.thrown = rt.errors[rt.maxRetries]
          /\ Len(rt.waits) = rt.maxRetries - 1
    /\ rt.given => mainPc = "start" /\ err = NoErr

(* C33: handleWithRetry calls the operation at most maxRetries times,      *)
(* returns the first successful result and calls nothing after it, waits   *)
(* 2^attempt seconds after failed attempt number attempt only when another *)
(* attempt follows, and after maxRetries failures throws the error of the  *)
(* last attempt, to its caller only: the run's own state is untouched.     *)
C33_RetryCeiling ==
    /\ []RetryBounded
    /\ [][RetryEnded => rt' = rt]_vars

\* three calls have failed, with waits of 2 and 4 seconds between them, and
\* the error of the third call was thrown
C33_Witness ==
    /\ rt.pc = "thrown"
    /\ Len(rt.errors) = defaultMaxRetries
    /\ rt.waits = <<2, 4>>
    /\ rt.thrown = rt.errors[defaultMaxRetries]
    /\ rt.errors[1] # rt.thrown

\* the output of the call is ordered by the sort field in the direction order
OrderedInDirection(order) ==
    \A i, j \in 1..Len(fl.out) :
        i < j =>
            LET ki == SortKey(fl.out[i], fl.criteria.sorting)
                kj == SortKey(fl.out[j], fl.criteria.sorting)
            IN IF order = "asc" THEN ki <= kj ELSE ki >= kj

(* C34: for every sort field, sortOrder asc gives an output non-decreasing *)
(* in that field and sortOrder desc one that is non-increasing in it; for  *)
(* alphabetical the field is the title.                                    *)
C34_SortDirection ==
    (fl.done /\ Has(fl.criteria, "sorting") /\ Has(fl.criteria.sorting, "sortOrder")) =>
        OrderedInDirection(fl.criteria.sorting.sortOrder)

\* post p is within every threshold the engagement criteria hold
WithinThresholds(p, criteria) ==
    /\ Has(criteria, "minLikes") => p.likes >= criteria.minLikes
    /\ Has(criteria, "maxLikes") => p.likes <= criteria.maxLikes
    /\ Has(criteria, "minComments") => p.comments >= criteria.minComments

(* C35: with the engagement filter enabled every post returned satisfies   *)
(* every threshold the caller gave: likes >= minLikes, likes <= maxLikes,  *)
(* comments >= minComments, a threshold of 0 included.                     *)
C35_ThresholdsHonoured ==
    (fl.done /\ Enabled(fl.criteria, "engagement")) =>
        \A i \in DOMAIN fl.out : WithinThresholds(fl.out[i], fl.criteria.engagement)

\* the error list holds the handler's 'No access to community' for community t
HasNoAccessEntry(t) ==
    \E i \in DOMAIN stats.errors :
        stats.errors[i].t = t /\ stats.errors[i].msg = "No access to community"

(* C36: in the api build a response that signals denied access makes the   *)
(* handler fail with 'No access to community' recorded for that community: *)
(* its traversal does not end well, and the completed run holds the error  *)
(* entry.                                                                  *)
C36_DeniedResponseFails ==
    variant = "api" =>
        \A t \in Targets :
            hist[t].denied =>
                /\ hist[t].outcome # "ok"
                /\ mainPc = "completed" => HasNoAccessEntry(t)

(***************************************************************************)
(* The browser builds with and without includeComments.                    *)
(***************************************************************************)
InitListing ==
    /\ variant \in {"legacy", "crawler"}
    /\ input \in {[i EXCEPT !.includeComments = b] : i \in Inputs, b \in BOOLEAN}
    /\ server = FreeServer
    /\ src = FreeSource
    /\ InitCommon

NextListing == Main \/ Legacy \/ Crawler \/ Run \/ Traversal

SpecListing == InitListing /\ [][NextListing]_vars

\* extractPosts has gone through all the elements of the listing and nothing
\* has failed during the run
ListingExtracted ==
    /\ cfg # NoCfg
    /\ tpc = "finish"
    /\ env.left = MaxEvents

(* C37: in a browser build the posts emitted for a listing are the same    *)
(* with includeComments set as without it: when nothing fails, every post  *)
(* of the listing is among the posts extractPosts returns, whether or not  *)
(* comments were fetched on the way.                                       *)
C37_CommentsLoseNoPosts ==
    ListingExtracted =>
        Range(ex.posts) = {Post(cur.t, k) : k \in 1..ex.n}

(* C38: every page request of a community carries the build token and the *)
(* community name taken from that community's own initial page, whatever   *)
(* the field shared by the handlers holds by then.                         *)
C38_OwnBuildToken ==
    \A i \in PageRequests(queue) :
        /\ queue[i].buildId = BuildToken(queue[i].t)
        /\ queue[i].communityName = queue[i].t

\* a follow-up request of one community is queued while the shared field
\* holds the token of the other community
C38_Witness ==
    \E i \in PageRequests(queue) :
        /\ queue[i].page > 1
        /\ buildId # NoBuildId
        /\ buildId # BuildToken(queue[i].t)

\* scrapeAllCommunities has returned allPosts to main
AllCommunitiesReturned ==
    /\ variant = "legacy"
    /\ cfg # NoCfg
    /\ mainPc # "scrape"
    /\ li > Len(cfg.startUrls)

\* the entries scrapeCommunity's catch has put in the error list
CommunityEntries == {i \in DOMAIN stats.errors : stats.errors[i].kind = "Community"}

(* C39: after scrapeAllCommunities returns, stats.totalPosts is the length *)
(* of the returned post sequence, and communitiesProcessed plus the number *)
(* of community error entries is the number of start URLs: each community  *)
(* was counted once, as processed or as failed.                            *)
C39_StatsAccountForTargets ==
    AllCommunitiesReturned =>
        /\ stats.totalPosts = Len(allPosts)
        /\ stats.communitiesProcessed + Cardinality(CommunityEntries) = Len(cfg.startUrls)

\* two communities, one traversed with posts returned and one failed
C39_Witness ==
    /\ AllCommunitiesReturned
    /\ Len(cfg.startUrls) = 2
    /\ stats.communitiesProcessed = 1
    /\ Cardinality(CommunityEntries) = 1
    /\ allPosts # <<>>

(***************************************************************************)
(* validateInput on inputs that give any of the six numeric parameters.    *)
(***************************************************************************)
\* values at and around the ends of each range, and the parameter left out
NumericChoices ==
    [ maxItems : {Unset, Num(-1), Num(0), Num(50000), Num(50001)},
      maxConcurrency : {Unset, Num(0), Num(1), Num(5), Num(50), Num(51)},
      minConcurrency : {Unset, Num(0), Num(1), Num(6), Num(10), Num(11)},
      maxRequestRetries : {Unset, Num(-1), Num(10), Num(11)},
      requestDelay : {Unset, Num(0), Num(1), Num(10), Num(11)},
      scrollDelay : {Unset, Num(0), Num(5), Num(6)} ]

InitNumeric ==
    /\ variant = "legacy"
    /\ input \in {Spread(PlainInput, n) : n \in NumericChoices}
    /\ server = FreeServer
    /\ src = FreeSource
    /\ InitCommon

NextNumeric == ValidateInput

SpecNumeric == InitNumeric /\ [][NextNumeric]_vars

\* the validated value of parameter f lies in its range
ValidatedInRange(f) ==
    cfg[f] >= numericParams[f].min /\ cfg[f] <= numericParams[f].max

(* C40: after validateInput succeeds every numeric parameter lies in its   *)
(* range and minConcurrency <= maxConcurrency, whichever values the caller *)
(* gave and whichever were filled in from the defaults.                    *)
C40_ValidatedNumericRanges ==
    cfg # NoCfg =>
        /\ \A k \in DOMAIN numericParamOrder : ValidatedInRange(numericParamOrder[k])
        /\ cfg.minConcurrency <= cfg.maxConcurrency

\* validation has succeeded with the highest minConcurrency given by the
\* caller and maxConcurrency filled in from the default
C40_Witness ==
    /\ cfg # NoCfg
    /\ input.minConcurrency = Num(10)
    /\ ~input.maxConcurrency.set
    /\ cfg.maxConcurrency = numericDefaults.maxConcurrency
    /\ input.scrollDelay.set

====
